---- MODULE Spec2Model ----
(***************************************************************************)
(* Model of the AI hotline webhook server (src/webhook/hotline_server.py). *)
(*                                                                         *)
(* A text (the caller's utterance, a closing phrase, a reply, a prompt of   *)
(* the views) is the sequence of its characters, each a one-character      *)
(* string.  URLs, the system prompt and identifiers, which the code only   *)
(* passes along to a backend, are strings or tuples of their parts.        *)
(* JSON values are tagged records: [k |-> "obj", keys |-> the keys in      *)
(* order, f |-> fields], [k |-> "list", l |-> items], [k |-> "str",        *)
(* s |-> text], [k |-> "null"].                                            *)
(* A document is the sequence of its instructions, in document order.      *)
(***************************************************************************)
EXTENDS Integers, Sequences, FiniteSets, TLC

VARIABLES
    flowId,   \* LANGFLOW_FLOW_ID, read once at process start
    files,    \* contents of AUDIO_DIR: file name -> bytes
    puts,     \* history: the writes of audio files, oldest first
    writing,  \* the calls of call_tts that are inside write_bytes while
              \* other requests are served: for each, how far its write is
              \* and what the synthesis endpoint answered it
    req,      \* the request being answered
    env,      \* the answers the backends gave during this request
    calls,    \* the outbound backend calls of this request, in order
    resp,     \* the response returned for req
    silences, \* history: the turn requests in a row, up to req, that the
              \* views took for turns without speech (counted up to
              \* MaxSilences)
    threads,  \* the server threads that handle requests at the same time:
              \* where each one is in its handler, and its local variables
    played,   \* history: the audio files named by the documents returned
              \* by the threads so far, with the bytes synthesized for them
    call,     \* one phone call as its provider runs it: where the provider
              \* is in the document it executes (resp.doc), and what the
              \* caller did so far
    tts_model,   \* tts_server.py: the global tts_model, None until loaded
    workers,     \* tts_server.py: the threads that handle /tts and /chat
    constructed  \* history: how many times TTS(...) was constructed

vars == <<flowId, files, puts, writing, req, env, calls, resp, silences,
          threads, played, call, tts_model, workers, constructed>>

\* the state of the TTS server process
ttsVars == <<tts_model, workers, constructed>>

(***************************************************************************)
(* Bounds                                                                  *)
(***************************************************************************)
\* audio ids available to call_tts in Spec
MaxArtifacts == 1
\* audio ids available to call_tts in SpecStore
MaxStored == 2
\* empty utterances in a row that the history tells apart
MaxSilences == 3
\* server threads that handle requests at the same time in SpecThreads
MaxThreads == 2
\* threads of the TTS server that handle requests at the same time
MaxWorkers == 2

(***************************************************************************)
(* Python values                                                           *)
(***************************************************************************)
\* None, as returned by call_tts on failure (an audio URL is never empty).
None == << >>

EmptyMap == [x \in {} |-> x]

UpperCase == <<"A","B","C","D","E","F","G","H","I","J","K","L","M",
               "N","O","P","Q","R","S","T","U","V","W","X","Y","Z">>
LowerCase == <<"a","b","c","d","e","f","g","h","i","j","k","l","m",
               "n","o","p","q","r","s","t","u","v","w","x","y","z">>

\* Characters outside ASCII are written by their code point.  The texts of
\* the model are over ASCII and these characters; every other character is
\* taken to have no case.
CAPITAL_E_ACUTE == "U+00C9"
SMALL_E_ACUTE == "U+00E9"
CAPITAL_I_DOT == "U+0130"
COMBINING_DOT == "U+0307"
CAPITAL_SIGMA == "U+03A3"
SMALL_FINAL_SIGMA == "U+03C2"
SMALL_SIGMA == "U+03C3"
KELVIN_SIGN == "U+212A"
\* the grave accent is written by its code point too
GRAVE == "U+0060"

IsUpper(c) == \E i \in 1..26 : UpperCase[i] = c
IsLower(c) == \E i \in 1..26 : LowerCase[i] = c

\* str.lower() on the one-character string c: the characters it gives
lowerChar(c) ==
    CASE IsUpper(c) -> <<LowerCase[CHOOSE i \in 1..26 : UpperCase[i] = c]>>
      [] c = CAPITAL_E_ACUTE -> <<SMALL_E_ACUTE>>
      [] c = CAPITAL_SIGMA -> <<SMALL_SIGMA>>
      [] c = KELVIN_SIGN -> <<"k">>
      [] c = CAPITAL_I_DOT -> <<"i", COMBINING_DOT>>
      [] OTHER -> <<c>>

\* the characters that have a case
Cased(c) ==
    \/ IsUpper(c)
    \/ IsLower(c)
    \/ c \in {CAPITAL_E_ACUTE, SMALL_E_ACUTE, CAPITAL_I_DOT, CAPITAL_SIGMA,
              SMALL_FINAL_SIGMA, SMALL_SIGMA, KELVIN_SIGN}

\* the characters str.lower() looks through when it searches for the cased
\* letter before and after a capital sigma
CaseIgnorable(c) == c \in {"'", ".", ":", "^", GRAVE, COMBINING_DOT}

\* the capital sigma at s[i] ends a word: the nearest character before it
\* that is not case-ignorable is cased, and the nearest one after it is not
FinalSigma(s, i) ==
    LET before == {j \in 1..(i - 1) : ~CaseIgnorable(s[j])}
        after == {j \in (i + 1)..Len(s) : ~CaseIgnorable(s[j])}
    IN  /\ before # {}
        /\ Cased(s[CHOOSE j \in before : \A k \in before : k <= j])
        /\ \/ after = {}
           \/ ~Cased(s[CHOOSE j \in after : \A k \in after : j <= k])

RECURSIVE lowerFrom(_, _)
\* str.lower() on s[i..]
lowerFrom(s, i) ==
    IF i > Len(s) THEN << >>
    ELSE (IF s[i] = CAPITAL_SIGMA /\ FinalSigma(s, i)
          THEN <<SMALL_FINAL_SIGMA>>
          ELSE lowerChar(s[i])) \o lowerFrom(s, i + 1)

\* str.lower()
lower(s) == lowerFrom(s, 1)

\* phrase in text
Contains(text, phrase) ==
    \E i \in 0..(Len(text) - Len(phrase)) :
        SubSeq(text, i + 1, i + Len(phrase)) = phrase

\* any(phrase in text.lower() for phrase in phrases)
AnyPhrase(text, phrases) ==
    \E t \in {lower(text)} : \E n \in 1..Len(phrases) : Contains(t, phrases[n])

\* the one element of a set of one element: The({e : x \in {v}}) is e with x
\* standing for the value of v
The(S) == CHOOSE x \in S : TRUE

HexDigits == <<"0","1","2","3","4","5","6","7","8","9","A","B","C","D","E","F">>
IsDigit(c) == \E i \in 1..10 : HexDigits[i] = c
IsHexDigit(c) == \E i \in 1..16 : lowerChar(HexDigits[i]) = lowerChar(c)
HexValue(c) ==
    (CHOOSE i \in 1..16 : lowerChar(HexDigits[i]) = lowerChar(c)) - 1

\* the printable ASCII characters, from code 32 to code 126
Ascii ==
    <<" ","!","\"","#","$","%","&","'","(",")","*","+",",","-",".","/","0",
      "1","2","3","4","5","6","7","8","9",":",";","<","=",">","?","@","A",
      "B","C","D","E","F","G","H","I","J","K","L","M","N","O","P","Q","R",
      "S","T","U","V","W","X","Y","Z","[","\\","]","^","_",GRAVE,"a","b",
      "c","d","e","f","g","h","i","j","k","l","m","n","o","p","q","r","s",
      "t","u","v","w","x","y","z","{","|","}","~">>

RECURSIVE Number(_, _, _)
\* the number the digits s[1..n] spell in the given base
Number(s, n, base) ==
    IF n = 0 THEN 0 ELSE Number(s, n - 1, base) * base + HexValue(s[n])

\* the values of Python that JSON carries: a str with its characters, a
\* dict, a list and None.  A dict holds its keys in the order they were put
\* in, which for a parsed body is their order in the text.
JStr(s) == [k |-> "str", s |-> s]
JDict(keys, f) == [k |-> "obj", keys |-> keys, f |-> f]
\* a dict of at most one key
JObj(f) == JDict(IF DOMAIN f = {} THEN << >> ELSE <<The(DOMAIN f)>>, f)
JList(l) == [k |-> "list", l |-> l]
JNull == [k |-> "null"]

IsObj(j) == j.k = "obj"
IsList(j) == j.k = "list"
IsStr(j) == j.k = "str"

\* dict.get(key, default), for j a dict
Get(j, key, default) == IF key \in DOMAIN j.f THEN j.f[key] ELSE default

\* bool(j) taking every transcript, the empty one too, for speech
Truthy_EmptySpeech(j) ==
    CASE j.k = "null" -> FALSE
      [] j.k = "str"  -> TRUE
      [] j.k = "list" -> Len(j.l) > 0
      [] j.k = "obj"  -> DOMAIN j.f # {}

\* bool(j)
Truthy(j) ==
    CASE j.k = "null" -> FALSE
      [] j.k = "str"  -> Len(j.s) > 0
      [] j.k = "list" -> Len(j.l) > 0
      [] j.k = "obj"  -> DOMAIN j.f # {}

\* the characters of a key of a dict
Chars(key) == [i \in 1..Len(key) |-> SubSeq(key, i, i)]

\* ord(c)
CharCode(c) ==
    CASE c = "\t" -> 9
      [] c = "\n" -> 10
      [] c = "\r" -> 13
      [] Len(c) = 1 -> 31 + (CHOOSE i \in 1..Len(Ascii) : Ascii[i] = c)
      [] OTHER -> The({Number(digits, Len(digits), 16) :
                       digits \in {SubSeq(Chars(c), 3, Len(c))}})

\* the code points str.isprintable() is false for, in ranges: the controls,
\* the format characters, the separators other than the space, the
\* surrogates, the private-use characters and the code points that are
\* unassigned, noncharacters included (the Unicode database of the Python
\* build, Unicode 14.0.0: general categories Cc, Cf, Cs, Co, Cn, Zl, Zp and
\* Zs but the space)
NotPrintable ==
    <<<<0, 31>>, <<127, 160>>, <<173, 173>>, <<888, 889>>, <<896, 899>>,
      <<907, 907>>, <<909, 909>>, <<930, 930>>, <<1328, 1328>>,
      <<1367, 1368>>, <<1419, 1420>>, <<1424, 1424>>, <<1480, 1487>>,
      <<1515, 1518>>, <<1525, 1541>>, <<1564, 1564>>, <<1757, 1757>>,
      <<1806, 1807>>, <<1867, 1868>>, <<1970, 1983>>, <<2043, 2044>>,
      <<2094, 2095>>, <<2111, 2111>>, <<2140, 2141>>, <<2143, 2143>>,
      <<2155, 2159>>, <<2191, 2199>>, <<2274, 2274>>, <<2436, 2436>>,
      <<2445, 2446>>, <<2449, 2450>>, <<2473, 2473>>, <<2481, 2481>>,
      <<2483, 2485>>, <<2490, 2491>>, <<2501, 2502>>, <<2505, 2506>>,
      <<2511, 2518>>, <<2520, 2523>>, <<2526, 2526>>, <<2532, 2533>>,
      <<2559, 2560>>, <<2564, 2564>>, <<2571, 2574>>, <<2577, 2578>>,
      <<2601, 2601>>, <<2609, 2609>>, <<2612, 2612>>, <<2615, 2615>>,
      <<2618, 2619>>, <<2621, 2621>>, <<2627, 2630>>, <<2633, 2634>>,
      <<2638, 2640>>, <<2642, 2648>>, <<2653, 2653>>, <<2655, 2661>>,
      <<2679, 2688>>, <<2692, 2692>>, <<2702, 2702>>, <<2706, 2706>>,
      <<2729, 2729>>, <<2737, 2737>>, <<2740, 2740>>, <<2746, 2747>>,
      <<2758, 2758>>, <<2762, 2762>>, <<2766, 2767>>, <<2769, 2783>>,
      <<2788, 2789>>, <<2802, 2808>>, <<2816, 2816>>, <<2820, 2820>>,
      <<2829, 2830>>, <<2833, 2834>>, <<2857, 2857>>, <<2865, 2865>>,
      <<2868, 2868>>, <<2874, 2875>>, <<2885, 2886>>, <<2889, 2890>>,
      <<2894, 2900>>, <<2904, 2907>>, <<2910, 2910>>, <<2916, 2917>>,
      <<2936, 2945>>, <<2948, 2948>>, <<2955, 2957>>, <<2961, 2961>>,
      <<2966, 2968>>, <<2971, 2971>>, <<2973, 2973>>, <<2976, 2978>>,
      <<2981, 2983>>, <<2987, 2989>>, <<3002, 3005>>, <<3011, 3013>>,
      <<3017, 3017>>, <<3022, 3023>>, <<3025, 3030>>, <<3032, 3045>>,
      <<3067, 3071>>, <<3085, 3085>>, <<3089, 3089>>, <<3113, 3113>>,
      <<3130, 3131>>, <<3141, 3141>>, <<3145, 3145>>, <<3150, 3156>>,
      <<3159, 3159>>, <<3163, 3164>>, <<3166, 3167>>, <<3172, 3173>>,
      <<3184, 3190>>, <<3213, 3213>>, <<3217, 3217>>, <<3241, 3241>>,
      <<3252, 3252>>, <<3258, 3259>>, <<3269, 3269>>, <<3273, 3273>>,
      <<3278, 3284>>, <<3287, 3292>>, <<3295, 3295>>, <<3300, 3301>>,
      <<3312, 3312>>, <<3315, 3327>>, <<3341, 3341>>, <<3345, 3345>>,
      <<3397, 3397>>, <<3401, 3401>>, <<3408, 3411>>, <<3428, 3429>>,
      <<3456, 3456>>, <<3460, 3460>>, <<3479, 3481>>, <<3506, 3506>>,
      <<3516, 3516>>, <<3518, 3519>>, <<3527, 3529>>, <<3531, 3534>>,
      <<3541, 3541>>, <<3543, 3543>>, <<3552, 3557>>, <<3568, 3569>>,
      <<3573, 3584>>, <<3643, 3646>>, <<3676, 3712>>, <<3715, 3715>>,
      <<3717, 3717>>, <<3723, 3723>>, <<3748, 3748>>, <<3750, 3750>>,
      <<3774, 3775>>, <<3781, 3781>>, <<3783, 3783>>, <<3790, 3791>>,
      <<3802, 3803>>, <<3808, 3839>>, <<3912, 3912>>, <<3949, 3952>>,
      <<3992, 3992>>, <<4029, 4029>>, <<4045, 4045>>, <<4059, 4095>>,
      <<4294, 4294>>, <<4296, 4300>>, <<4302, 4303>>, <<4681, 4681>>,
      <<4686, 4687>>, <<4695, 4695>>, <<4697, 4697>>, <<4702, 4703>>,
      <<4745, 4745>>, <<4750, 4751>>, <<4785, 4785>>, <<4790, 4791>>,
      <<4799, 4799>>, <<4801, 4801>>, <<4806, 4807>>, <<4823, 4823>>,
      <<4881, 4881>>, <<4886, 4887>>, <<4955, 4956>>, <<4989, 4991>>,
      <<5018, 5023>>, <<5110, 5111>>, <<5118, 5119>>, <<5760, 5760>>,
      <<5789, 5791>>, <<5881, 5887>>, <<5910, 5918>>, <<5943, 5951>>,
      <<5972, 5983>>, <<5997, 5997>>, <<6001, 6001>>, <<6004, 6015>>,
      <<6110, 6111>>, <<6122, 6127>>, <<6138, 6143>>, <<6158, 6158>>,
      <<6170, 6175>>, <<6265, 6271>>, <<6315, 6319>>, <<6390, 6399>>,
      <<6431, 6431>>, <<6444, 6447>>, <<6460, 6463>>, <<6465, 6467>>,
      <<6510, 6511>>, <<6517, 6527>>, <<6572, 6575>>, <<6602, 6607>>,
      <<6619, 6621>>, <<6684, 6685>>, <<6751, 6751>>, <<6781, 6782>>,
      <<6794, 6799>>, <<6810, 6815>>, <<6830, 6831>>, <<6863, 6911>>,
      <<6989, 6991>>, <<7039, 7039>>, <<7156, 7163>>, <<7224, 7226>>,
      <<7242, 7244>>, <<7305, 7311>>, <<7355, 7356>>, <<7368, 7375>>,
      <<7419, 7423>>, <<7958, 7959>>, <<7966, 7967>>, <<8006, 8007>>,
      <<8014, 8015>>, <<8024, 8024>>, <<8026, 8026>>, <<8028, 8028>>,
      <<8030, 8030>>, <<8062, 8063>>, <<8117, 8117>>, <<8133, 8133>>,
      <<8148, 8149>>, <<8156, 8156>>, <<8176, 8177>>, <<8181, 8181>>,
      <<8191, 8207>>, <<8232, 8239>>, <<8287, 8303>>, <<8306, 8307>>,
      <<8335, 8335>>, <<8349, 8351>>, <<8385, 8399>>, <<8433, 8447>>,
      <<8588, 8591>>, <<9255, 9279>>, <<9291, 9311>>, <<11124, 11125>>,
      <<11158, 11158>>, <<11508, 11512>>, <<11558, 11558>>,
      <<11560, 11564>>, <<11566, 11567>>, <<11624, 11630>>,
      <<11633, 11646>>, <<11671, 11679>>, <<11687, 11687>>,
      <<11695, 11695>>, <<11703, 11703>>, <<11711, 11711>>,
      <<11719, 11719>>, <<11727, 11727>>, <<11735, 11735>>,
      <<11743, 11743>>, <<11870, 11903>>, <<11930, 11930>>,
      <<12020, 12031>>, <<12246, 12271>>, <<12284, 12288>>,
      <<12352, 12352>>, <<12439, 12440>>, <<12544, 12548>>,
      <<12592, 12592>>, <<12687, 12687>>, <<12772, 12783>>,
      <<12831, 12831>>, <<42125, 42127>>, <<42183, 42191>>,
      <<42540, 42559>>, <<42744, 42751>>, <<42955, 42959>>,
      <<42962, 42962>>, <<42964, 42964>>, <<42970, 42993>>,
      <<43053, 43055>>, <<43066, 43071>>, <<43128, 43135>>,
      <<43206, 43213>>, <<43226, 43231>>, <<43348, 43358>>,
      <<43389, 43391>>, <<43470, 43470>>, <<43482, 43485>>,
      <<43519, 43519>>, <<43575, 43583>>, <<43598, 43599>>,
      <<43610, 43611>>, <<43715, 43738>>, <<43767, 43776>>,
      <<43783, 43784>>, <<43791, 43792>>, <<43799, 43807>>,
      <<43815, 43815>>, <<43823, 43823>>, <<43884, 43887>>,
      <<44014, 44015>>, <<44026, 44031>>, <<55204, 55215>>,
      <<55239, 55242>>, <<55292, 63743>>, <<64110, 64111>>,
      <<64218, 64255>>, <<64263, 64274>>, <<64280, 64284>>,
      <<64311, 64311>>, <<64317, 64317>>, <<64319, 64319>>,
      <<64322, 64322>>, <<64325, 64325>>, <<64451, 64466>>,
      <<64912, 64913>>, <<64968, 64974>>, <<64976, 65007>>,
      <<65050, 65055>>, <<65107, 65107>>, <<65127, 65127>>,
      <<65132, 65135>>, <<65141, 65141>>, <<65277, 65280>>,
      <<65471, 65473>>, <<65480, 65481>>, <<65488, 65489>>,
      <<65496, 65497>>, <<65501, 65503>>, <<65511, 65511>>,
      <<65519, 65531>>, <<65534, 65535>>, <<65548, 65548>>,
      <<65575, 65575>>, <<65595, 65595>>, <<65598, 65598>>,
      <<65614, 65615>>, <<65630, 65663>>, <<65787, 65791>>,
      <<65795, 65798>>, <<65844, 65846>>, <<65935, 65935>>,
      <<65949, 65951>>, <<65953, 65999>>, <<66046, 66175>>,
      <<66205, 66207>>, <<66257, 66271>>, <<66300, 66303>>,
      <<66340, 66348>>, <<66379, 66383>>, <<66427, 66431>>,
      <<66462, 66462>>, <<66500, 66503>>, <<66518, 66559>>,
      <<66718, 66719>>, <<66730, 66735>>, <<66772, 66775>>,
      <<66812, 66815>>, <<66856, 66863>>, <<66916, 66926>>,
      <<66939, 66939>>, <<66955, 66955>>, <<66963, 66963>>,
      <<66966, 66966>>, <<66978, 66978>>, <<66994, 66994>>,
      <<67002, 67002>>, <<67005, 67071>>, <<67383, 67391>>,
      <<67414, 67423>>, <<67432, 67455>>, <<67462, 67462>>,
      <<67505, 67505>>, <<67515, 67583>>, <<67590, 67591>>,
      <<67593, 67593>>, <<67638, 67638>>, <<67641, 67643>>,
      <<67645, 67646>>, <<67670, 67670>>, <<67743, 67750>>,
      <<67760, 67807>>, <<67827, 67827>>, <<67830, 67834>>,
      <<67868, 67870>>, <<67898, 67902>>, <<67904, 67967>>,
      <<68024, 68027>>, <<68048, 68049>>, <<68100, 68100>>,
      <<68103, 68107>>, <<68116, 68116>>, <<68120, 68120>>,
      <<68150, 68151>>, <<68155, 68158>>, <<68169, 68175>>,
      <<68185, 68191>>, <<68256, 68287>>, <<68327, 68330>>,
      <<68343, 68351>>, <<68406, 68408>>, <<68438, 68439>>,
      <<68467, 68471>>, <<68498, 68504>>, <<68509, 68520>>,
      <<68528, 68607>>, <<68681, 68735>>, <<68787, 68799>>,
      <<68851, 68857>>, <<68904, 68911>>, <<68922, 69215>>,
      <<69247, 69247>>, <<69290, 69290>>, <<69294, 69295>>,
      <<69298, 69375>>, <<69416, 69423>>, <<69466, 69487>>,
      <<69514, 69551>>, <<69580, 69599>>, <<69623, 69631>>,
      <<69710, 69713>>, <<69750, 69758>>, <<69821, 69821>>,
      <<69827, 69839>>, <<69865, 69871>>, <<69882, 69887>>,
      <<69941, 69941>>, <<69960, 69967>>, <<70007, 70015>>,
      <<70112, 70112>>, <<70133, 70143>>, <<70162, 70162>>,
      <<70207, 70271>>, <<70279, 70279>>, <<70281, 70281>>,
      <<70286, 70286>>, <<70302, 70302>>, <<70314, 70319>>,
      <<70379, 70383>>, <<70394, 70399>>, <<70404, 70404>>,
      <<70413, 70414>>, <<70417, 70418>>, <<70441, 70441>>,
      <<70449, 70449>>, <<70452, 70452>>, <<70458, 70458>>,
      <<70469, 70470>>, <<70473, 70474>>, <<70478, 70479>>,
      <<70481, 70486>>, <<70488, 70492>>, <<70500, 70501>>,
      <<70509, 70511>>, <<70517, 70655>>, <<70748, 70748>>,
      <<70754, 70783>>, <<70856, 70863>>, <<70874, 71039>>,
      <<71094, 71095>>, <<71134, 71167>>, <<71237, 71247>>,
      <<71258, 71263>>, <<71277, 71295>>, <<71354, 71359>>,
      <<71370, 71423>>, <<71451, 71452>>, <<71468, 71471>>,
      <<71495, 71679>>, <<71740, 71839>>, <<71923, 71934>>,
      <<71943, 71944>>, <<71946, 71947>>, <<71956, 71956>>,
      <<71959, 71959>>, <<71990, 71990>>, <<71993, 71994>>,
      <<72007, 72015>>, <<72026, 72095>>, <<72104, 72105>>,
      <<72152, 72153>>, <<72165, 72191>>, <<72264, 72271>>,
      <<72355, 72367>>, <<72441, 72703>>, <<72713, 72713>>,
      <<72759, 72759>>, <<72774, 72783>>, <<72813, 72815>>,
      <<72848, 72849>>, <<72872, 72872>>, <<72887, 72959>>,
      <<72967, 72967>>, <<72970, 72970>>, <<73015, 73017>>,
      <<73019, 73019>>, <<73022, 73022>>, <<73032, 73039>>,
      <<73050, 73055>>, <<73062, 73062>>, <<73065, 73065>>,
      <<73103, 73103>>, <<73106, 73106>>, <<73113, 73119>>,
      <<73130, 73439>>, <<73465, 73647>>, <<73649, 73663>>,
      <<73714, 73726>>, <<74650, 74751>>, <<74863, 74863>>,
      <<74869, 74879>>, <<75076, 77711>>, <<77811, 77823>>,
      <<78895, 82943>>, <<83527, 92159>>, <<92729, 92735>>,
      <<92767, 92767>>, <<92778, 92781>>, <<92863, 92863>>,
      <<92874, 92879>>, <<92910, 92911>>, <<92918, 92927>>,
      <<92998, 93007>>, <<93018, 93018>>, <<93026, 93026>>,
      <<93048, 93052>>, <<93072, 93759>>, <<93851, 93951>>,
      <<94027, 94030>>, <<94088, 94094>>, <<94112, 94175>>,
      <<94181, 94191>>, <<94194, 94207>>, <<100344, 100351>>,
      <<101590, 101631>>, <<101641, 110575>>, <<110580, 110580>>,
      <<110588, 110588>>, <<110591, 110591>>, <<110883, 110927>>,
      <<110931, 110947>>, <<110952, 110959>>, <<111356, 113663>>,
      <<113771, 113775>>, <<113789, 113791>>, <<113801, 113807>>,
      <<113818, 113819>>, <<113824, 118527>>, <<118574, 118575>>,
      <<118599, 118607>>, <<118724, 118783>>, <<119030, 119039>>,
      <<119079, 119080>>, <<119155, 119162>>, <<119275, 119295>>,
      <<119366, 119519>>, <<119540, 119551>>, <<119639, 119647>>,
      <<119673, 119807>>, <<119893, 119893>>, <<119965, 119965>>,
      <<119968, 119969>>, <<119971, 119972>>, <<119975, 119976>>,
      <<119981, 119981>>, <<119994, 119994>>, <<119996, 119996>>,
      <<120004, 120004>>, <<120070, 120070>>, <<120075, 120076>>,
      <<120085, 120085>>, <<120093, 120093>>, <<120122, 120122>>,
      <<120127, 120127>>, <<120133, 120133>>, <<120135, 120137>>,
      <<120145, 120145>>, <<120486, 120487>>, <<120780, 120781>>,
      <<121484, 121498>>, <<121504, 121504>>, <<121520, 122623>>,
      <<122655, 122879>>, <<122887, 122887>>, <<122905, 122906>>,
      <<122914, 122914>>, <<122917, 122917>>, <<122923, 123135>>,
      <<123181, 123183>>, <<123198, 123199>>, <<123210, 123213>>,
      <<123216, 123535>>, <<123567, 123583>>, <<123642, 123646>>,
      <<123648, 124895>>, <<124903, 124903>>, <<124908, 124908>>,
      <<124911, 124911>>, <<124927, 124927>>, <<125125, 125126>>,
      <<125143, 125183>>, <<125260, 125263>>, <<125274, 125277>>,
      <<125280, 126064>>, <<126133, 126208>>, <<126270, 126463>>,
      <<126468, 126468>>, <<126496, 126496>>, <<126499, 126499>>,
      <<126501, 126502>>, <<126504, 126504>>, <<126515, 126515>>,
      <<126520, 126520>>, <<126522, 126522>>, <<126524, 126529>>,
      <<126531, 126534>>, <<126536, 126536>>, <<126538, 126538>>,
      <<126540, 126540>>, <<126544, 126544>>, <<126547, 126547>>,
      <<126549, 126550>>, <<126552, 126552>>, <<126554, 126554>>,
      <<126556, 126556>>, <<126558, 126558>>, <<126560, 126560>>,
      <<126563, 126563>>, <<126565, 126566>>, <<126571, 126571>>,
      <<126579, 126579>>, <<126584, 126584>>, <<126589, 126589>>,
      <<126591, 126591>>, <<126602, 126602>>, <<126620, 126624>>,
      <<126628, 126628>>, <<126634, 126634>>, <<126652, 126703>>,
      <<126706, 126975>>, <<127020, 127023>>, <<127124, 127135>>,
      <<127151, 127152>>, <<127168, 127168>>, <<127184, 127184>>,
      <<127222, 127231>>, <<127406, 127461>>, <<127491, 127503>>,
      <<127548, 127551>>, <<127561, 127567>>, <<127570, 127583>>,
      <<127590, 127743>>, <<128728, 128732>>, <<128749, 128751>>,
      <<128765, 128767>>, <<128884, 128895>>, <<128985, 128991>>,
      <<129004, 129007>>, <<129009, 129023>>, <<129036, 129039>>,
      <<129096, 129103>>, <<129114, 129119>>, <<129160, 129167>>,
      <<129198, 129199>>, <<129202, 129279>>, <<129620, 129631>>,
      <<129646, 129647>>, <<129653, 129655>>, <<129661, 129663>>,
      <<129671, 129679>>, <<129709, 129711>>, <<129723, 129727>>,
      <<129734, 129743>>, <<129754, 129759>>, <<129768, 129775>>,
      <<129783, 129791>>, <<129939, 129939>>, <<129995, 130031>>,
      <<130042, 131071>>, <<173792, 173823>>, <<177977, 177983>>,
      <<178206, 178207>>, <<183970, 183983>>, <<191457, 194559>>,
      <<195102, 196607>>, <<201547, 917759>>, <<918000, 1114111>>>>

\* c.isprintable()
Printable(c) ==
    \E code \in {CharCode(c)} :
        \A n \in 1..Len(NotPrintable) :
            code < NotPrintable[n][1] \/ code > NotPrintable[n][2]

\* the escape repr() writes for a character that is not printable: \xNN,
\* \uNNNN or \UNNNNNNNN with the code in lower-case hexadecimal digits
CodeEscape(code) ==
    LET width == IF code < 256 THEN 2 ELSE IF code < 65536 THEN 4 ELSE 8
        letter == IF code < 256 THEN "x" ELSE IF code < 65536 THEN "u" ELSE "U"
    IN  <<"\\", letter>>
        \o [i \in 1..width |->
               lowerChar(HexDigits[((code \div (16 ^ (width - i))) % 16) + 1])[1]]

RECURSIVE Join(_, _, _)
\* sep.join(parts[i:]), with no separator in front when i = 1
Join(parts, i, sep) ==
    IF i > Len(parts) THEN << >>
    ELSE (IF i > 1 THEN sep ELSE << >>) \o parts[i] \o Join(parts, i + 1, sep)

\* repr(s) of a str: in single quotes, or in double quotes when s holds a
\* single and no double quote; the backslash, the quote, the line ends and
\* the tab are escaped by a letter, every other character that is not
\* printable by its code
StrRepr(s) ==
    LET quote == IF /\ \E i \in 1..Len(s) : s[i] = "'"
                    /\ ~\E i \in 1..Len(s) : s[i] = "\""
                 THEN "\"" ELSE "'"
        Escaped(c) ==
            CASE c = "\\" -> <<"\\", "\\">>
              [] c = quote -> <<"\\", c>>
              [] c = "\n" -> <<"\\", "n">>
              [] c = "\r" -> <<"\\", "r">>
              [] c = "\t" -> <<"\\", "t">>
              [] OTHER -> IF Printable(c) THEN <<c>>
                          ELSE CodeEscape(CharCode(c))
    IN  <<quote>> \o Join([i \in 1..Len(s) |-> Escaped(s[i])], 1, << >>)
        \o <<quote>>

RECURSIVE repr(_)
\* repr(j)
repr(j) ==
    CASE j.k = "null" -> <<"N","o","n","e">>
      [] j.k = "str"  -> StrRepr(j.s)
      [] j.k = "list" ->
            <<"[">> \o Join([n \in 1..Len(j.l) |-> repr(j.l[n])], 1, <<",", " ">>)
            \o <<"]">>
      [] j.k = "obj"  ->
            <<"{">>
            \o Join([n \in 1..Len(j.keys) |->
                        StrRepr(Chars(j.keys[n])) \o <<":", " ">>
                        \o repr(j.f[j.keys[n]])], 1, <<",", " ">>)
            \o <<"}">>

\* str(j), the text an f-string puts in for {j}
str(j) == IF j.k = "str" THEN j.s ELSE repr(j)


(***************************************************************************)
(* Configuration                                                           *)
(***************************************************************************)
BASE_URL == "http://localhost:8080"
TTS_URL == "http://localhost:5000"
LLM_URL == "http://localhost:11434"
LANGFLOW_URL == "http://localhost:7860"
SYSTEM_PROMPT == "You are a helpful AI voice assistant.\nKeep your responses brief and conversational - aim for 1-2 sentences.\nYou're speaking on a phone call, so be natural and friendly."

\* the values LANGFLOW_FLOW_ID takes: unset, or the id of a flow
FlowIds == {"", "flow-1"}

(***************************************************************************)
(* Backend answers                                                         *)
(*   status: "ok" (2xx), "http_error" (raise_for_status raises),           *)
(*           "timeout" (requests.post raises: timeout, connection error)   *)
(***************************************************************************)
HttpFailures == {"timeout", "http_error"}

\* a body that is not JSON: response.json() raises
JInvalid == [k |-> "invalid"]

\* the answer recorded for a backend the request never called
NoAnswer == [status |-> "not_called"]

(***************************************************************************)
(* Helper functions                                                        *)
(***************************************************************************)
AudioName(audio_id) == <<audio_id, ".wav">>

AudioUrl(audio_id) == <<BASE_URL, "/audio/", audio_id, ".wav">>

\* the audio store with file `name` holding `bytes`
Holding(fs, name, bytes) ==
    [n \in DOMAIN fs \cup {name} |-> IF n = name THEN bytes ELSE fs[n]]

\* Path.write_bytes: open for writing (create or truncate), then write.
\*   write = "ok": all bytes written; "open_failed": no file is created;
\*   "write_failed": the file holds the first `written` bytes
write_bytes(fs, name, content, ans) ==
    CASE ans.write = "ok" ->
            [n \in DOMAIN fs \cup {name} |-> IF n = name THEN content ELSE fs[n]]
      [] ans.write = "open_failed" -> fs
      [] ans.write = "write_failed" ->
            [n \in DOMAIN fs \cup {name} |->
                IF n = name THEN SubSeq(content, 1, ans.written) ELSE fs[n]]

TtsCall(text, language) ==
    [svc |-> "tts", url |-> <<TTS_URL, "/tts">>,
     json |-> [text |-> text, language |-> language], timeout |-> 30]

\* call_tts(text, language="en"): the audio URL or None, and AUDIO_DIR after
call_tts(text, language, ans, fs) ==
    IF ans.status # "ok"
    THEN [ret |-> None, files |-> fs]
    ELSE LET audio_id == ans.audio_id
             fs2 == write_bytes(fs, AudioName(audio_id), ans.content, ans)
         IN  IF ans.write = "ok"
             THEN [ret |-> AudioUrl(audio_id), files |-> fs2]
             ELSE [ret |-> None, files |-> fs2]

APOLOGY_LLM ==  \* "I'm sorry, I had trouble understanding. Could you repeat that?"
    <<"I","'","m"," ","s","o","r","r","y",","," ","I"," ","h","a","d"," ",
      "t","r","o","u","b","l","e"," ","u","n","d","e","r","s","t","a","n",
      "d","i","n","g","."," ","C","o","u","l","d"," ","y","o","u"," ","r",
      "e","p","e","a","t"," ","t","h","a","t","?">>
DEFAULT_LLM ==  \* "I couldn't process that."
    <<"I"," ","c","o","u","l","d","n","'","t"," ","p","r","o","c","e","s",
      "s"," ","t","h","a","t",".">>
APOLOGY_LANGFLOW ==  \* "I'm having trouble with my AI workflow. Please try again."
    <<"I","'","m"," ","h","a","v","i","n","g"," ","t","r","o","u","b","l",
      "e"," ","w","i","t","h"," ","m","y"," ","A","I"," ","w","o","r","k",
      "f","l","o","w","."," ","P","l","e","a","s","e"," ","t","r","y"," ",
      "a","g","a","i","n",".">>
DEFAULT_LANGFLOW ==  \* "I couldn't process that through the workflow."
    <<"I"," ","c","o","u","l","d","n","'","t"," ","p","r","o","c","e","s",
      "s"," ","t","h","a","t"," ","t","h","r","o","u","g","h"," ","t","h",
      "e"," ","w","o","r","k","f","l","o","w",".">>

LangflowCall(fid, message) ==
    [svc |-> "langflow", url |-> <<LANGFLOW_URL, "/api/v1/run/", fid>>,
     json |-> [input_value |-> message, output_type |-> "chat",
               input_type |-> "chat"],
     timeout |-> 60]

\* call_langflow(message): the value the workflow answered, a text unless
\* the workflow put another value in its place
call_langflow(ans) ==
    IF ans.status # "ok" \/ ans.body.k = "invalid" THEN JStr(APOLOGY_LANGFLOW)
    ELSE LET result == ans.body IN
    IF ~IsObj(result) THEN JStr(APOLOGY_LANGFLOW)
    ELSE LET outputs == Get(result, "outputs", JList(<<JObj(EmptyMap)>>)) IN
    IF ~Truthy(outputs) THEN JStr(DEFAULT_LANGFLOW)
    ELSE IF ~IsList(outputs) THEN JStr(APOLOGY_LANGFLOW)
    ELSE IF ~IsObj(outputs.l[1]) THEN JStr(APOLOGY_LANGFLOW)
    ELSE LET inner == Get(outputs.l[1], "outputs", JList(<<JObj(EmptyMap)>>)) IN
    IF ~(IsList(inner) /\ Truthy(inner)) THEN JStr(APOLOGY_LANGFLOW)
    ELSE IF ~IsObj(inner.l[1]) THEN JStr(APOLOGY_LANGFLOW)
    ELSE LET results == Get(inner.l[1], "results", JObj(EmptyMap)) IN
    IF ~IsObj(results) THEN JStr(APOLOGY_LANGFLOW)
    ELSE LET message == Get(results, "message", JObj(EmptyMap)) IN
    IF ~IsObj(message) THEN JStr(APOLOGY_LANGFLOW)
    ELSE Get(message, "text", JStr(<< >>))

\* the sampling options of the completion request; the temperature, a float
\* in the code, is written as its decimal text
OllamaOptions == [temperature |-> "0.7", num_predict |-> 150]

\* the completion request without the system prompt
OllamaCall_NoPersona(message) ==
    [svc |-> "ollama", url |-> <<LLM_URL, "/api/generate">>,
     json |-> [model |-> "llama3.1:8b",
               prompt |-> <<"", "\n\nUser: ", message, "\nAssistant:">>,
               stream |-> FALSE,
               options |-> OllamaOptions],
     timeout |-> 60]

OllamaCall(message) ==
    [svc |-> "ollama", url |-> <<LLM_URL, "/api/generate">>,
     json |-> [model |-> "llama3.1:8b",
               prompt |-> <<SYSTEM_PROMPT, "\n\nUser: ", message, "\nAssistant:">>,
               stream |-> FALSE,
               options |-> OllamaOptions],
     timeout |-> 60]

\* call_llm choosing the completion endpoint when a flow id is set
LlmCall_Inverted(fid, message) ==
    IF fid # "" THEN OllamaCall(message) ELSE LangflowCall("", message)

\* the outbound call call_llm(message) makes
LlmCall(fid, message) ==
    IF fid # "" THEN LangflowCall(fid, message) ELSE OllamaCall(message)

\* call_llm(message): the reply, a text unless the backend put another value
\* in its place
call_llm(fid, ans) ==
    IF fid # "" THEN call_langflow(ans)
    ELSE IF ans.status # "ok" \/ ans.body.k = "invalid" THEN JStr(APOLOGY_LLM)
    ELSE IF ~IsObj(ans.body) THEN JStr(APOLOGY_LLM)
    ELSE Get(ans.body, "response", JStr(DEFAULT_LLM))

(***************************************************************************)
(* TwiML as the provider reads it.  The views build the body of a TwiML    *)
(* response as an f-string: the markup of the template with the spoken     *)
(* text put between <Say> and </Say> as it is.  The body is scanned into   *)
(* tokens and read as XML: start tags with attributes, end tags, character *)
(* data, the predefined entities, comments, CDATA sections and processing  *)
(* instructions.  Line ends are normalized before the body is read, and    *)
(* white space in attribute values is read as spaces.  No namespace is     *)
(* processed: a ":" is a name character like a letter.                     *)
(***************************************************************************)
\* the least number of S, and none when S is empty
FirstOf(S, none) ==
    The({IF T = {} THEN none ELSE CHOOSE j \in T : \A k \in T : j <= k :
         T \in {S}})

\* the character with the given code: "U+" and the code in four to six
\* hexadecimal digits for a character outside ASCII
CodeChar(code) ==
    CASE code = 9 -> "\t"
      [] code = 10 -> "\n"
      [] code = 13 -> "\r"
      [] code \in 32..126 -> Ascii[code - 31]
      [] OTHER -> "U+" \o (IF code >= 1048576
                           THEN HexDigits[((code \div 1048576) % 16) + 1]
                           ELSE "")
                      \o (IF code >= 65536
                          THEN HexDigits[((code \div 65536) % 16) + 1]
                          ELSE "")
                      \o HexDigits[((code \div 4096) % 16) + 1]
                      \o HexDigits[((code \div 256) % 16) + 1]
                      \o HexDigits[((code \div 16) % 16) + 1]
                      \o HexDigits[(code % 16) + 1]

\* the characters of names: the letters, "_" and ":", the digits and some
\* marks
NameStartChar(c) == Cased(c) \/ c \in {"_", ":"}
NameChar(c) ==
    NameStartChar(c) \/ IsDigit(c) \/ c \in {"-", ".", COMBINING_DOT}
WhiteSpace(c) == c \in {" ", "\t", "\n", "\r"}

\* the end of the name that starts at s[i]: the first position that holds no
\* name character
NameEnd(s, i) == FirstOf({j \in i..Len(s) : ~NameChar(s[j])}, Len(s) + 1)

\* the first position from i that holds no white space
SkipSpace(s, i) == FirstOf({j \in i..Len(s) : ~WhiteSpace(s[j])}, Len(s) + 1)

\* s holds pat at position i
At(s, i, pat) ==
    /\ i >= 1
    /\ i + Len(pat) - 1 <= Len(s)
    /\ s[i] = pat[1]
    /\ SubSeq(s, i, i + Len(pat) - 1) = pat

\* the first position from i where s holds pat, 0 when there is none
Find(s, i, pat) == FirstOf({j \in i..Len(s) : At(s, j, pat)}, 0)

\* the code points of the production Char of XML 1.0: the tab, the line
\* feed, the carriage return and every code point of Unicode from the space
\* on but the surrogates, U+FFFE and U+FFFF
XmlCode(code) ==
    \/ code \in {9, 10, 13}
    \/ code \in 32..55295
    \/ code \in 57344..65533
    \/ code \in 65536..1114111

\* c is a character a document may hold.  The views write the characters of
\* a reply into the document as they are; the texts of the model hold no
\* surrogate, which the response could not be encoded with.
XmlChar(c) == Len(c) = 1 \/ XmlCode(CharCode(c))

\* the character a reference &name; stands for, in a sequence that is empty
\* when it stands for none
EntityChar(name) ==
    LET hex == Len(name) >= 2 /\ name[2] = "x"
        digits == SubSeq(name, IF hex THEN 3 ELSE 2, Len(name))
        \* the digits after the leading zeros
        value == SubSeq(digits,
                        FirstOf({j \in 1..Len(digits) : digits[j] # "0"},
                                Len(digits) + 1),
                        Len(digits))
        code == Number(value, Len(value), IF hex THEN 16 ELSE 10)
    IN  CASE name = <<"a","m","p">> -> <<"&">>
          [] name = <<"l","t">> -> <<"<">>
          [] name = <<"g","t">> -> <<">">>
          [] name = <<"a","p","o","s">> -> <<"'">>
          [] name = <<"q","u","o","t">> -> <<"\"">>
          [] OTHER ->
                IF /\ Len(name) >= 2
                   /\ name[1] = "#"
                   /\ Len(digits) >= 1
                   /\ \A j \in 1..Len(digits) :
                          IF hex THEN IsHexDigit(digits[j])
                          ELSE IsDigit(digits[j])
                   /\ Len(value) <= 7
                   /\ XmlCode(code)
                THEN <<CodeChar(code)>>
                ELSE << >>

\* the reference that starts with the "&" at s[i]: the character it stands
\* for and the position after its ";"
Reference(s, i) ==
    The({IF semi = 0 THEN [ok |-> FALSE]
         ELSE The({IF c = << >> THEN [ok |-> FALSE]
                   ELSE [ok |-> TRUE, c |-> c[1], next |-> semi + 1] :
                   c \in {EntityChar(SubSeq(s, i + 1, semi - 1))}}) :
         semi \in {Find(s, i + 1, <<";">>)}})

RECURSIVE AttValue(_, _, _)
\* the value of an attribute, from s[i] up to the quote at s[stop], with its
\* references replaced and each white space character written in it read
\* as a space
AttValue(s, i, stop) ==
    IF i >= stop THEN << >>
    ELSE IF s[i] = "&"
    THEN The({<<ref.c>> \o AttValue(s, ref.next, stop) :
              ref \in {Reference(s, i)}})
    ELSE <<IF WhiteSpace(s[i]) THEN " " ELSE s[i]>> \o AttValue(s, i + 1, stop)

\* the attribute name="value" that starts at s[k]: its name and value, and
\* the position after the quote that closes it
Attribute(s, k) ==
    The({IF ~At(s, eq, <<"=">>) THEN [ok |-> FALSE] ELSE
         The({IF q > Len(s) \/ s[q] \notin {"\"", "'"} THEN [ok |-> FALSE] ELSE
              The({IF \/ stop = 0
                      \/ \E j \in (q + 1)..(stop - 1) :
                            \/ s[j] = "<"
                            \/ /\ s[j] = "&"
                               /\ \E ref \in {Reference(s, j)} :
                                     ~ref.ok \/ ref.next > stop
                   THEN [ok |-> FALSE]
                   ELSE [ok |-> TRUE,
                         pair |-> <<SubSeq(s, k, e - 1),
                                    AttValue(s, q + 1, stop)>>,
                         next |-> stop + 1] :
                   stop \in {Find(s, q + 1, <<s[q]>>)}}) :
              q \in {SkipSpace(s, eq + 1)}}) :
         e \in {NameEnd(s, k)}, eq \in {SkipSpace(s, NameEnd(s, k))}})

RECURSIVE Attributes(_, _)
\* the attributes of the start tag whose name ends before s[i]: their names
\* and values, the position of the ">" that ends the tag, and whether a "/"
\* stands before it
Attributes(s, i) ==
    The({IF At(s, k, <<">">>)
         THEN [ok |-> TRUE, attrs |-> << >>, end |-> k, empty |-> FALSE]
         ELSE IF At(s, k, <<"/", ">">>)
         THEN [ok |-> TRUE, attrs |-> << >>, end |-> k + 1, empty |-> TRUE]
         ELSE IF k = i \/ k > Len(s) \/ ~NameStartChar(s[k]) THEN [ok |-> FALSE]
         ELSE The({IF ~att.ok THEN [ok |-> FALSE] ELSE
                   The({IF ~rest.ok THEN [ok |-> FALSE]
                        ELSE IF \E n \in 1..Len(rest.attrs) :
                                   rest.attrs[n][1] = att.pair[1]
                        THEN [ok |-> FALSE]
                        ELSE [rest EXCEPT !.attrs = <<att.pair>> \o rest.attrs] :
                        rest \in {Attributes(s, att.next)}}) :
                   att \in {Attribute(s, k)}}) :
         k \in {SkipSpace(s, i)}})

\* the verb an element name stands for
Verb(name) ==
    CASE name = <<"S","a","y">> -> "Say"
      [] name = <<"P","l","a","y">> -> "Play"
      [] name = <<"G","a","t","h","e","r">> -> "Gather"
      [] name = <<"H","a","n","g","u","p">> -> "Hangup"
      [] name = <<"R","e","s","p","o","n","s","e">> -> "Response"
      [] OTHER -> "Other"

\* the name of the element of a verb
VerbName(verb) ==
    CASE verb = "Say" -> <<"S","a","y">>
      [] verb = "Play" -> <<"P","l","a","y">>
      [] verb = "Gather" -> <<"G","a","t","h","e","r">>
      [] verb = "Hangup" -> <<"H","a","n","g","u","p">>
      [] verb = "Response" -> <<"R","e","s","p","o","n","s","e">>

\* the tokens of a body: a start tag, the tag of an empty element, an end
\* tag, character data, a value the template puts into the body as a whole,
\* and what cannot be read
XmlOpen(name, fields) == [t |-> "open", name |-> name, fields |-> fields]
XmlEmpty(name, fields) == [t |-> "empty", name |-> name, fields |-> fields]
XmlClose(name) == [t |-> "close", name |-> name]
XmlChars(s) == [t |-> "chars", s |-> s]
XmlValue(v) == [t |-> "value", v |-> v]
XmlBad == [t |-> "bad"]

\* what a tag found in a text tells of its element: the verb, the name of
\* an element that is no verb of the views, and the attributes if any
TagFields(name, attrs) ==
    [verb |-> Verb(name)]
    @@ (IF Verb(name) = "Other" THEN [name |-> name] ELSE EmptyMap)
    @@ (IF Len(attrs) > 0 THEN [attrs |-> attrs] ELSE EmptyMap)

\* the tokens read at s[i], none for a comment or a processing instruction,
\* and the position after them; XmlBad where the text cannot be read
TokenAt(s, i) ==
    LET Bad == [toks |-> <<XmlBad>>, next |-> Len(s) + 1] IN
    IF At(s, i, <<"<","!","-","-">>)
    THEN The({IF dashes = 0 \/ ~At(s, dashes + 2, <<">">>) THEN Bad
              ELSE [toks |-> << >>, next |-> dashes + 3] :
              dashes \in {Find(s, i + 4, <<"-","-">>)}})
    ELSE IF At(s, i, <<"<","!","[","C","D","A","T","A","[">>)
    THEN The({IF stop = 0 THEN Bad
              ELSE [toks |-> <<XmlChars(SubSeq(s, i + 9, stop - 1))>>,
                    next |-> stop + 3] :
              stop \in {Find(s, i + 9, <<"]","]",">">>)}})
    ELSE IF At(s, i, <<"<","?">>)
    THEN The({IF \/ e = i + 2
                 \/ ~NameStartChar(s[i + 2])
                 \/ lower(SubSeq(s, i + 2, e - 1)) = <<"x","m","l">>
                 \/ stop = 0
                 \/ (stop > e /\ ~WhiteSpace(s[e]))
              THEN Bad
              ELSE [toks |-> << >>, next |-> stop + 2] :
              e \in {NameEnd(s, i + 2)},
              stop \in {Find(s, NameEnd(s, i + 2), <<"?",">">>)}})
    ELSE IF At(s, i, <<"<","/">>)
    THEN The({IF \/ e = i + 2
                 \/ ~NameStartChar(s[i + 2])
                 \/ ~At(s, SkipSpace(s, e), <<">">>)
              THEN Bad
              ELSE [toks |-> <<XmlClose(SubSeq(s, i + 2, e - 1))>>,
                    next |-> SkipSpace(s, e) + 1] :
              e \in {NameEnd(s, i + 2)}})
    ELSE IF s[i] = "<"
    THEN The({IF e = i + 1 \/ ~NameStartChar(s[i + 1]) THEN Bad ELSE
              The({IF ~tag.ok THEN Bad
                   ELSE [toks |-> <<IF tag.empty
                                    THEN XmlEmpty(name, TagFields(name, tag.attrs))
                                    ELSE XmlOpen(name, TagFields(name, tag.attrs))>>,
                         next |-> tag.end + 1] :
                   tag \in {Attributes(s, e)}, name \in {SubSeq(s, i + 1, e - 1)}}) :
              e \in {NameEnd(s, i + 1)}})
    ELSE IF s[i] = "&"
    THEN The({IF ~ref.ok THEN Bad
              ELSE [toks |-> <<XmlChars(<<ref.c>>)>>, next |-> ref.next] :
              ref \in {Reference(s, i)}})
    ELSE IF At(s, i, <<"]","]",">">>) THEN Bad
    ELSE The({[toks |-> <<XmlChars(SubSeq(s, i, end - 1))>>, next |-> end] :
              end \in {FirstOf({j \in (i + 1)..Len(s) :
                                   \/ s[j] \in {"<", "&"}
                                   \/ At(s, j, <<"]","]",">">>)},
                               Len(s) + 1)}})

RECURSIVE XmlTokens(_, _)
\* the tokens of s[i..], a text put into the content of an element; a text
\* that is not well-formed, or that holds a character no document may hold,
\* ends in the token XmlBad
XmlTokens(s, i) ==
    IF i > Len(s) THEN << >>
    ELSE IF ~XmlChar(s[i]) THEN <<XmlBad>>
    ELSE The({IF \E j \in i..(tk.next - 1) : j <= Len(s) /\ ~XmlChar(s[j])
              THEN <<XmlBad>>
              ELSE tk.toks \o XmlTokens(s, tk.next) :
              tk \in {TokenAt(s, i)}})

RECURSIVE EndOfLine(_, _)
\* s[i..] with its line ends normalized: a carriage return with the line
\* feed after it, and a carriage return alone, are read as one line feed
EndOfLine(s, i) ==
    IF i > Len(s) THEN << >>
    ELSE IF s[i] = "\r"
    THEN <<"\n">> \o EndOfLine(s, IF i < Len(s) /\ s[i + 1] = "\n"
                                   THEN i + 2 ELSE i + 1)
    ELSE <<s[i]>> \o EndOfLine(s, i + 1)

\* record e without its field f
Without(e, f) == [k \in DOMAIN e \ {f} |-> e[k]]

RECURSIVE Render(_, _)
\* the tokens of the elements twiml[i..] of a template
Render(twiml, i) ==
    IF i > Len(twiml) THEN << >>
    ELSE The({(CASE e.verb = "Say" ->
                      <<XmlOpen(VerbName("Say"), Without(e, "text"))>>
                      \o The({XmlTokens(text, 1) :
                              text \in {EndOfLine(e.text, 1)}})
                      \o <<XmlClose(VerbName("Say"))>>
                 [] e.verb = "Play" ->
                      <<XmlOpen(VerbName("Play"), Without(e, "url")),
                        XmlValue(e.url), XmlClose(VerbName("Play"))>>
                 [] e.verb = "Gather" ->
                      IF Len(e.children) = 0
                      THEN <<XmlEmpty(VerbName("Gather"),
                                      Without(e, "children"))>>
                      ELSE <<XmlOpen(VerbName("Gather"),
                                     Without(e, "children"))>>
                           \o The({Render(children, 1) :
                                   children \in {e.children}})
                           \o <<XmlClose(VerbName("Gather"))>>
                 [] e.verb = "Hangup" -> <<XmlEmpty(VerbName("Hangup"), e)>>)
              \o Render(twiml, i + 1) :
              e \in {twiml[i]}})

\* the body of a TwiML response: <Response>, the template, </Response>
Twiml(twiml) ==
    <<XmlOpen(VerbName("Response"), [verb |-> "Response"])>>
    \o The({Render(t, 1) : t \in {twiml}})
    \o <<XmlClose(VerbName("Response"))>>

\* node k in front of the content read after it
XmlCons(k, rest) ==
    The({IF r.ok THEN [r EXCEPT !.kids = <<k>> \o r.kids] ELSE r :
         r \in {rest}})

RECURSIVE XmlContent(_, _)
\* the content read from toks[i..] up to the end tag that closes it (or the
\* end of the tokens): its elements and character data in order, and the
\* position where the reading stopped
XmlContent(toks, i) ==
    IF i > Len(toks) THEN [ok |-> TRUE, kids |-> << >>, next |-> i]
    ELSE The({
        IF tk.t = "bad" THEN [ok |-> FALSE]
        ELSE IF tk.t = "close" THEN [ok |-> TRUE, kids |-> << >>, next |-> i]
        ELSE IF tk.t \in {"chars", "value"}
        THEN XmlCons(tk, XmlContent(toks, i + 1))
        ELSE IF tk.t = "empty"
        THEN XmlCons([t |-> "node", fields |-> tk.fields, kids |-> << >>],
                     XmlContent(toks, i + 1))
        ELSE The({IF ~inner.ok THEN inner
                  ELSE IF inner.next > Len(toks) THEN [ok |-> FALSE]
                  ELSE IF toks[inner.next].name # tk.name THEN [ok |-> FALSE]
                  ELSE XmlCons([t |-> "node", fields |-> tk.fields,
                                kids |-> inner.kids],
                               XmlContent(toks, inner.next + 1)) :
                  inner \in {XmlContent(toks, i + 1)}}) :
        tk \in {toks[i]}})

IsNode(k) == k.t = "node"

RECURSIVE CharData(_, _)
\* the character data among kids[i..], in one text
CharData(kids, i) ==
    IF i > Len(kids) THEN << >>
    ELSE (IF kids[i].t = "chars" THEN kids[i].s ELSE << >>)
         \o CharData(kids, i + 1)

RECURSIVE Instruction(_)
\* the instruction an element stands for: its verb and attributes, with the
\* text it speaks, the URL it plays, or the instructions nested in it
Instruction(node) ==
    The({
        LET nested == IF Len(children) > 0 THEN [children |-> children]
                      ELSE EmptyMap
        IN  CASE node.fields.verb = "Say" ->
                    node.fields @@ [text |-> text] @@ nested
              [] node.fields.verb = "Play" ->
                    node.fields
                    @@ [url |-> IF Len(node.kids) = 1 /\ node.kids[1].t = "value"
                                THEN node.kids[1].v ELSE text]
                    @@ nested
              [] node.fields.verb = "Gather" ->
                    node.fields @@ [children |-> children]
              [] OTHER ->
                    node.fields
                    @@ (IF Len(text) > 0 THEN [text |-> text] ELSE EmptyMap)
                    @@ nested :
        text \in {CharData(node.kids, 1)},
        children \in {[n \in 1..Len(SelectSeq(node.kids, IsNode)) |->
                          The({Instruction(e) :
                               e \in {SelectSeq(node.kids, IsNode)[n]}})]}})

\* character data that is white space only
Blank(k) == k.t = "chars" /\ \A n \in 1..Len(k.s) : WhiteSpace(k.s[n])

\* the document a provider reads from the tokens of a TwiML body: whether
\* the body is well-formed XML, and the instructions of its <Response> in
\* order
ReadTwiml(toks) ==
    The({IF ~read.ok \/ read.next <= read.len
         THEN [ok |-> FALSE, doc |-> << >>]
         ELSE The({IF Len(roots) # 1 THEN [ok |-> FALSE, doc |-> << >>]
                   ELSE IF \E n \in 1..Len(read.kids) :
                              ~IsNode(read.kids[n]) /\ ~Blank(read.kids[n])
                   THEN [ok |-> FALSE, doc |-> << >>]
                   ELSE [ok |-> TRUE,
                         doc |-> The({[n \in 1..Len(elements) |->
                                          Instruction(elements[n])] :
                                      elements \in
                                        {SelectSeq(roots[1].kids, IsNode)}})] :
                   roots \in {SelectSeq(read.kids, IsNode)}}) :
         read \in {The({XmlContent(t, 1) @@ [len |-> Len(t)] : t \in {toks}})}})

(***************************************************************************)
(* Responses                                                               *)
(***************************************************************************)
\* Response(twiml, mimetype="text/xml"): the body as the provider reads it
XmlResponse(twiml) ==
    The({[status |-> 200, mimetype |-> "text/xml", wellformed |-> read.ok,
          doc |-> read.doc, body |-> << >>, json |-> EmptyMap] :
         read \in {ReadTwiml(Twiml(twiml))}})

\* jsonify(verbs)
JsonResponse(doc) ==
    [status |-> 200, mimetype |-> "application/json", wellformed |-> TRUE,
     doc |-> doc, body |-> << >>, json |-> EmptyMap]

\* what Flask answers when the view raises `fault`: 500 for an exception of
\* the code, the error's own status for an HTTP error raised by Flask
FaultResponse(status, fault) ==
    [status |-> status, mimetype |-> "text/html", wellformed |-> TRUE,
     doc |-> << >>, body |-> << >>, json |-> [fault |-> fault]]

\* the result of a view: its response, AUDIO_DIR after it, and its outbound
\* calls in order
View(response, fs, cs) == [resp |-> response, files |-> fs, calls |-> cs]

(***************************************************************************)
(* Twilio endpoints (TwiML)                                                *)
(***************************************************************************)
TwPlay(url) == [verb |-> "Play", url |-> url]
TwSay(text) == [verb |-> "Say", text |-> text]
TwSayAlice(text) == [verb |-> "Say", voice |-> "alice", text |-> text]
TwGather(children) ==
    [verb |-> "Gather", input |-> "speech", action |-> <<BASE_URL, "/gather">>,
     method |-> "POST", speechTimeout |-> "auto", language |-> "en-US",
     children |-> children]
TwHangup == [verb |-> "Hangup"]

GREETING ==  \* "Hello! I'm your AI assistant. How can I help you today?"
    <<"H","e","l","l","o","!"," ","I","'","m"," ","y","o","u","r"," ","A",
      "I"," ","a","s","s","i","s","t","a","n","t","."," ","H","o","w"," ",
      "c","a","n"," ","I"," ","h","e","l","p"," ","y","o","u"," ","t","o",
      "d","a","y","?">>
REPROMPT ==  \* "I didn't catch that. Could you repeat?"
    <<"I"," ","d","i","d","n","'","t"," ","c","a","t","c","h"," ","t","h",
      "a","t","."," ","C","o","u","l","d"," ","y","o","u"," ","r","e","p",
      "e","a","t","?">>
TWILIO_FAREWELL ==  \* "Thank you for calling! Have a great day. Goodbye!"
    <<"T","h","a","n","k"," ","y","o","u"," ","f","o","r"," ","c","a","l",
      "l","i","n","g","!"," ","H","a","v","e"," ","a"," ","g","r","e","a",
      "t"," ","d","a","y","."," ","G","o","o","d","b","y","e","!">>
JAMBONZ_FAREWELL ==  \* "Thank you for calling! Goodbye!"
    <<"T","h","a","n","k"," ","y","o","u"," ","f","o","r"," ","c","a","l",
      "l","i","n","g","!"," ","G","o","o","d","b","y","e","!">>
LISTENING ==  \* "I'm listening."
    <<"I","'","m"," ","l","i","s","t","e","n","i","n","g",".">>
NO_INPUT ==  \* "I didn't hear anything. Goodbye!"
    <<"I"," ","d","i","d","n","'","t"," ","h","e","a","r"," ","a","n","y",
      "t","h","i","n","g","."," ","G","o","o","d","b","y","e","!">>
STILL_NOTHING ==  \* "Still nothing. Goodbye!"
    <<"S","t","i","l","l"," ","n","o","t","h","i","n","g","."," ","G","o",
      "o","d","b","y","e","!">>
STILL_THERE ==  \* "Are you still there?"
    <<"A","r","e"," ","y","o","u"," ","s","t","i","l","l"," ","t","h","e",
      "r","e","?">>

\* request.form.get(key, default)
FormGet(form, key, default) == IF key \in DOMAIN form THEN form[key] ELSE default

\* POST /voice
twilio_voice(form, ttsAns, fs) ==
    LET greeting == JStr(GREETING)
        tts == call_tts(greeting, "en", ttsAns, fs)
        audio_url == tts.ret
        twiml ==
            IF audio_url # None
            THEN << TwPlay(audio_url),
                    TwGather(<<TwSay(LISTENING)>>),
                    TwSay(NO_INPUT),
                    TwHangup >>
            ELSE << TwSayAlice(str(greeting)),
                    TwGather(<<TwSay(LISTENING)>>),
                    TwSay(NO_INPUT),
                    TwHangup >>
    IN  View(XmlResponse(twiml), tts.files, <<TtsCall(greeting, "en")>>)

twilio_goodbye_phrases ==
    << <<"g","o","o","d","b","y","e">>,
       <<"b","y","e">>,
       <<"h","a","n","g"," ","u","p">>,
       <<"e","n","d"," ","c","a","l","l">>,
       <<"t","h","a","t","'","s"," ","a","l","l">> >>

\* POST /gather
twilio_gather(form, fid, llmAns, ttsAns, fs) ==
    LET speech_result == FormGet(form, "SpeechResult", << >>) IN
    IF Len(speech_result) = 0
    THEN View(XmlResponse(<< TwSayAlice(REPROMPT),
                             TwGather(<< >>),
                             TwSay(STILL_NOTHING),
                             TwHangup >>),
              fs, << >>)
    ELSE IF AnyPhrase(speech_result, twilio_goodbye_phrases)
    THEN LET farewell == JStr(TWILIO_FAREWELL)
             tts == call_tts(farewell, "en", ttsAns, fs)
             audio_url == tts.ret
             twiml == IF audio_url # None
                      THEN << TwPlay(audio_url), TwHangup >>
                      ELSE << TwSayAlice(str(farewell)), TwHangup >>
         IN  View(XmlResponse(twiml), tts.files, <<TtsCall(farewell, "en")>>)
    ELSE LET ai_response == call_llm(fid, llmAns)
             tts == call_tts(ai_response, "en", ttsAns, fs)
             audio_url == tts.ret
             twiml == IF audio_url # None
                      THEN << TwPlay(audio_url),
                              TwGather(<< >>),
                              TwSay(STILL_THERE),
                              TwHangup >>
                      ELSE << TwSayAlice(str(ai_response)),
                              TwGather(<< >>),
                              TwSay(STILL_THERE),
                              TwHangup >>
         IN  View(XmlResponse(twiml), tts.files,
                  <<LlmCall(fid, speech_result), TtsCall(ai_response, "en")>>)

(***************************************************************************)
(* Jambonz endpoints                                                       *)
(*   A request body is a JSON value, or one of                             *)
(*     [k |-> "absent_none"]   no JSON body, request.json is None          *)
(*     [k |-> "absent_raise"]  no JSON body, request.json raises the HTTP  *)
(*                             error of the installed Flask                *)
(***************************************************************************)
JbPlay(url) == [verb |-> "play", url |-> url]
JbSay(text) == [verb |-> "say", text |-> text]
JbSayGoogle(text) ==
    [verb |-> "say", text |-> text,
     synthesizer |-> [vendor |-> "google", language |-> "en-US",
                      voice |-> "en-US-Wavenet-D"]]
JbGatherGreeting ==
    [verb |-> "gather", input |-> <<"speech">>,
     actionHook |-> <<BASE_URL, "/jambonz-gather">>, timeout |-> 10,
     speechTimeout |-> "auto",
     recognizer |-> [vendor |-> "google", language |-> "en-US"]]
JbGather ==
    [verb |-> "gather", input |-> <<"speech">>,
     actionHook |-> <<BASE_URL, "/jambonz-gather">>, timeout |-> 10]
JbHangup == [verb |-> "hangup"]

\* request.json or {}
request_json(body) ==
    IF body.k = "absent_none" THEN JObj(EmptyMap)
    ELSE IF ~Truthy(body) THEN JObj(EmptyMap)
    ELSE body

\* jambonz_webhook calling call_tts a second time when the first call fails
jambonz_webhook_RetryTts(body, ttsAns, fs) ==
    IF body.k = "absent_raise"
    THEN View(FaultResponse(415, "UnsupportedMediaType"), fs, << >>)
    ELSE LET payload == request_json(body) IN
    IF ~IsObj(payload)
    THEN View(FaultResponse(500, "AttributeError"), fs, << >>)
    ELSE LET greeting == JStr(GREETING)
             tts == call_tts(greeting, "en", ttsAns, fs)
             audio_url == tts.ret
             first == IF audio_url # None
                      THEN JbPlay(audio_url)
                      ELSE JbSayGoogle(greeting)
             response == << first,
                            JbGatherGreeting,
                            JbSay(JStr(NO_INPUT)),
                            JbHangup >>
         IN  View(JsonResponse(response), tts.files,
                  IF audio_url # None
                  THEN <<TtsCall(greeting, "en")>>
                  ELSE <<TtsCall(greeting, "en"), TtsCall(greeting, "en")>>)

\* POST /jambonz
jambonz_webhook(body, ttsAns, fs) ==
    IF body.k = "absent_raise"
    THEN View(FaultResponse(415, "UnsupportedMediaType"), fs, << >>)
    ELSE LET payload == request_json(body) IN
    IF ~IsObj(payload)
    THEN View(FaultResponse(500, "AttributeError"), fs, << >>)
    ELSE LET greeting == JStr(GREETING)
             tts == call_tts(greeting, "en", ttsAns, fs)
             audio_url == tts.ret
             first == IF audio_url # None
                      THEN JbPlay(audio_url)
                      ELSE JbSayGoogle(greeting)
             response == << first,
                            JbGatherGreeting,
                            JbSay(JStr(NO_INPUT)),
                            JbHangup >>
         IN  View(JsonResponse(response), tts.files,
                  <<TtsCall(greeting, "en")>>)

jambonz_goodbye_phrases ==
    << <<"g","o","o","d","b","y","e">>,
       <<"b","y","e">>,
       <<"h","a","n","g"," ","u","p">>,
       <<"e","n","d"," ","c","a","l","l">> >>

\* payload.get("speech", {}).get("alternatives", [{}])[0].get("transcript", ""):
\* the transcript, or the exception the expression raises
jambonz_transcript(payload) ==
    IF ~IsObj(payload) THEN [raised |-> "AttributeError"]
    ELSE LET speech == Get(payload, "speech", JObj(EmptyMap)) IN
    IF ~IsObj(speech) THEN [raised |-> "AttributeError"]
    ELSE LET alternatives ==
                 Get(speech, "alternatives", JList(<<JObj(EmptyMap)>>)) IN
    IF (IsList(alternatives) \/ IsStr(alternatives)) /\ ~Truthy(alternatives)
    THEN [raised |-> "IndexError"]
    ELSE IF IsStr(alternatives) THEN [raised |-> "AttributeError"]
    ELSE IF IsObj(alternatives) THEN [raised |-> "KeyError"]
    ELSE IF ~IsList(alternatives) THEN [raised |-> "TypeError"]
    ELSE IF ~IsObj(alternatives.l[1]) THEN [raised |-> "AttributeError"]
    ELSE [raised |-> "", value |-> Get(alternatives.l[1], "transcript", JStr(<< >>))]

\* jambonz_gather playing a file of an earlier request when synthesis fails
jambonz_gather_CachedAudio(body, fid, llmAns, ttsAns, fs) ==
    IF body.k = "absent_raise"
    THEN View(FaultResponse(415, "UnsupportedMediaType"), fs, << >>)
    ELSE LET payload == request_json(body)
             transcript == jambonz_transcript(payload) IN
    IF transcript.raised # ""
    THEN View(FaultResponse(500, transcript.raised), fs, << >>)
    ELSE LET speech_text == transcript.value IN
    IF ~Truthy(speech_text)
    THEN View(JsonResponse(<< JbSay(JStr(REPROMPT)), JbGather, JbHangup >>),
              fs, << >>)
    ELSE IF ~IsStr(speech_text)
    THEN View(FaultResponse(500, "AttributeError"), fs, << >>)
    ELSE IF AnyPhrase(speech_text.s, jambonz_goodbye_phrases)
    THEN LET farewell == JStr(JAMBONZ_FAREWELL)
             tts == call_tts(farewell, "en", ttsAns, fs)
             audio_url == tts.ret
             response == IF audio_url # None
                         THEN << JbPlay(audio_url), JbHangup >>
                         ELSE << JbSay(farewell), JbHangup >>
         IN  View(JsonResponse(response), tts.files,
                  <<TtsCall(farewell, "en")>>)
    ELSE LET ai_response == call_llm(fid, llmAns)
             tts == call_tts(ai_response, "en", ttsAns, fs)
             audio_url == tts.ret
             first == IF audio_url # None
                      THEN JbPlay(audio_url)
                      ELSE IF DOMAIN fs # {}
                      THEN JbPlay(AudioUrl((CHOOSE n \in DOMAIN fs : TRUE)[1]))
                      ELSE JbSay(ai_response)
             response == << first, JbGather, JbHangup >>
         IN  View(JsonResponse(response), tts.files,
                  <<LlmCall(fid, speech_text.s), TtsCall(ai_response, "en")>>)

\* POST /jambonz-gather
jambonz_gather(body, fid, llmAns, ttsAns, fs) ==
    IF body.k = "absent_raise"
    THEN View(FaultResponse(415, "UnsupportedMediaType"), fs, << >>)
    ELSE LET payload == request_json(body)
             transcript == jambonz_transcript(payload) IN
    IF transcript.raised # ""
    THEN View(FaultResponse(500, transcript.raised), fs, << >>)
    ELSE LET speech_text == transcript.value IN
    IF ~Truthy(speech_text)
    THEN View(JsonResponse(<< JbSay(JStr(REPROMPT)), JbGather, JbHangup >>),
              fs, << >>)
    ELSE IF ~IsStr(speech_text)
    THEN View(FaultResponse(500, "AttributeError"), fs, << >>)
    ELSE IF AnyPhrase(speech_text.s, jambonz_goodbye_phrases)
    THEN LET farewell == JStr(JAMBONZ_FAREWELL)
             tts == call_tts(farewell, "en", ttsAns, fs)
             audio_url == tts.ret
             response == IF audio_url # None
                         THEN << JbPlay(audio_url), JbHangup >>
                         ELSE << JbSay(farewell), JbHangup >>
         IN  View(JsonResponse(response), tts.files,
                  <<TtsCall(farewell, "en")>>)
    ELSE LET ai_response == call_llm(fid, llmAns)
             tts == call_tts(ai_response, "en", ttsAns, fs)
             audio_url == tts.ret
             first == IF audio_url # None
                      THEN JbPlay(audio_url)
                      ELSE JbSay(ai_response)
             response == << first, JbGather, JbHangup >>
         IN  View(JsonResponse(response), tts.files,
                  <<LlmCall(fid, speech_text.s), TtsCall(ai_response, "en")>>)

(***************************************************************************)
(* Audio serving                                                           *)
(***************************************************************************)
\* the names that are directories whatever AUDIO_DIR holds: AUDIO_DIR / "."
\* is AUDIO_DIR itself and AUDIO_DIR / ".." is its parent
DotNames == {<<".">>, <<"..">>}

\* (AUDIO_DIR / filename).exists(): true of a file and of a directory
exists(fs, filename) == filename \in DOMAIN fs \/ filename \in DotNames

\* send_file(audio_path, mimetype="audio/wav"): it opens the path to read it,
\* which raises IsADirectoryError for a directory; serve_audio catches nothing
send_file(fs, filename) ==
    IF filename \in DotNames
    THEN FaultResponse(500, "IsADirectoryError")
    ELSE [status |-> 200, mimetype |-> "audio/wav", wellformed |-> TRUE,
          doc |-> << >>, body |-> fs[filename], json |-> EmptyMap]

\* GET /audio/<filename>
serve_audio(filename, fs) ==
    IF exists(fs, filename)
    THEN send_file(fs, filename)
    ELSE [status |-> 404, mimetype |-> "application/json",
          wellformed |-> TRUE, doc |-> << >>, body |-> << >>,
          json |-> [error |-> "Audio not found"]]

(***************************************************************************)
(* Inputs                                                                  *)
(***************************************************************************)
U_okay_goodbye == <<"o","k","a","y"," ","g","o","o","d","b","y","e">>  \* "okay goodbye"
U_BYE == <<"B","Y","E">>  \* "BYE"
U_Hang_Up == <<"H","a","n","g"," ","U","p">>  \* "Hang Up"
U_end_call == <<"p","l","e","a","s","e"," ","e","n","d"," ","c","a","l","l">>  \* "please end call"
U_Thats_all == <<"T","h","a","t","'","s"," ","a","l","l">>  \* "That's all"
U_lullabyes == <<"l","u","l","l","a","b","y","e","s">>  \* "lullabyes"
U_weather == <<"W","h","a","t","'","s"," ","t","h","e"," ","w","e","a","t","h","e","r">>  \* "What's the weather"

Utterances == {U_okay_goodbye, U_BYE, U_Hang_Up, U_end_call, U_Thats_all,
               U_lullabyes, U_weather}

\* form bodies of POST /gather
GatherForms ==
    {[CallSid |-> "CA1"], [SpeechResult |-> << >>, CallSid |-> "CA1"]}
    \cup {[SpeechResult |-> u, CallSid |-> "CA1"] : u \in Utterances}

\* form bodies of POST /voice
VoiceForms == {[CallSid |-> "CA1", From |-> "+15550100"], EmptyMap}

\* the body Jambonz posts for call `call_sid` when a gather ends
JbSpeechOf(call_sid, alternatives) ==
    JDict(<<"call_sid", "speech">>,
          [call_sid |-> JStr(call_sid),
           speech |-> JObj([alternatives |-> alternatives])])

JbSpeech(alternatives) == JbSpeechOf(<<"J","B","1">>, alternatives)

JbTranscript(u) == JbSpeech(JList(<<JObj([transcript |-> JStr(u)])>>))

\* bodies of POST /jambonz-gather
JambonzGatherBodies ==
    {JObj(EmptyMap),
     JObj([speech |-> JObj(EmptyMap)]),
     JbSpeech(JList(<< >>)),
     JbSpeech(JList(<<JObj(EmptyMap)>>)),
     JbSpeech(JList(<<JObj([transcript |-> JNull])>>)),
     JbTranscript(<< >>)}
    \cup {JbTranscript(u) : u \in Utterances}

\* bodies of POST /jambonz
JambonzBodies ==
    {JObj(EmptyMap),
     JDict(<<"call_sid", "from">>,
           [call_sid |-> JStr(<<"J","B","1">>),
            from |-> JStr(<<"+","1","5","5","5","0","1","0","0">>)])}

\* a request without JSON body, and what request.json does with it
NoBodies == {[k |-> "absent_none"], [k |-> "absent_raise"]}

REPLY ==  \* "It is sunny."
    <<"I","t"," ","i","s"," ","s","u","n","n","y",".">>
\* replies that hold characters of XML markup
REPLY_AMPERSAND ==  \* "R&D"
    <<"R","&","D">>
REPLY_MARKUP ==  \* "ok</Say><Hangup/><Say>"
    <<"o","k","<","/","S","a","y",">","<","H","a","n","g","u","p","/",">",
      "<","S","a","y",">">>

LfText(results) ==
    JObj([outputs |-> JList(<<JObj([outputs |-> JList(<<JObj(results)>>)])>>)])

\* what the direct completion endpoint answers
OllamaAnswers ==
    {[status |-> st, body |-> JNull] : st \in HttpFailures}
    \cup {[status |-> "ok", body |-> b] :
            b \in {JInvalid, JList(<< >>), JObj(EmptyMap),
                   JObj([response |-> JStr(REPLY)]),
                   JObj([response |-> JStr(REPLY_AMPERSAND)]),
                   JObj([response |-> JStr(<< >>)]),
                   JObj([response |-> JNull])}}

\* what the workflow endpoint answers
LangflowAnswers ==
    {[status |-> st, body |-> JNull] : st \in HttpFailures}
    \cup {[status |-> "ok", body |-> b] :
            b \in {JInvalid, JObj(EmptyMap),
                   JObj([outputs |-> JList(<< >>)]),
                   JObj([outputs |-> JList(<<JObj([outputs |-> JList(<< >>)])>>)]),
                   LfText([results |-> JObj([message |-> JObj(EmptyMap)])]),
                   LfText([results |-> JObj([message |-> JObj([text |-> JStr(REPLY)])])]),
                   LfText([results |-> JObj([message |-> JObj([text |-> JStr(REPLY_MARKUP)])])]),
                   LfText([results |-> JObj([message |-> JObj([text |-> JNull])])])}}

LlmAnswers(fid) == IF fid # "" THEN LangflowAnswers ELSE OllamaAnswers

WAV1 == <<82, 73>>
WAV2 == <<70>>
\* the audio the synthesis endpoint answers with where the bytes are compared,
\* and where they are not
Wavs == {WAV1, WAV2}
OneWav == {WAV1}

AudioIds == 1..MaxArtifacts
StoreIds == 1..MaxStored

\* uuid.uuid4() never repeats an id
FreshIds(fs, ids) == {i \in ids : AudioName(i) \notin DOMAIN fs}

\* what the synthesis endpoint answers, and how the write of the file goes
TtsAnswers(fs, ids, wavs) ==
    {[status |-> st, content |-> << >>, audio_id |-> 0, write |-> "none",
      written |-> 0] : st \in HttpFailures}
    \cup {[status |-> "ok", content |-> c, audio_id |-> i, write |-> "ok",
           written |-> Len(c)] : c \in wavs, i \in FreshIds(fs, ids)}
    \cup {[status |-> "ok", content |-> WAV1, audio_id |-> i,
           write |-> "write_failed", written |-> 1] : i \in FreshIds(fs, ids)}
    \cup {[status |-> "ok", content |-> WAV1, audio_id |-> i,
           write |-> "open_failed", written |-> 0] : i \in FreshIds(fs, ids)}

\* names asked of GET /audio/<filename>: the names call_tts gives its files,
\* names it never gives, and the dot names, which the route's converter
\* accepts as it accepts any text without a slash
FileNames(ids) ==
    {AudioName(i) : i \in ids} \cup {<<i, ".mp3">> : i \in ids} \cup DotNames

UsesLlm(cs) == \E n \in 1..Len(cs) : cs[n].svc \in {"ollama", "langflow"}
UsesTts(cs) == \E n \in 1..Len(cs) : cs[n].svc = "tts"

\* the answers a request consumes: one per backend its view calls
LlmChoices(cs, las) == IF UsesLlm(cs) THEN las ELSE {NoAnswer}
\* no call of call_tts is inside write_bytes
NoWrite == {}

\* the synthesis answered and write_bytes opened the file
Creates(ta) == ta.status = "ok" /\ ta.write \in {"ok", "write_failed"}

\* ta is the answer of a call of call_tts whose write_bytes is over and
\* whose request has not returned yet
InFlight(ta) == [stage |-> "written", ta |-> ta] \in writing

\* the synthesis answers a request can get.  The server handles requests in
\* threads (app.run, threaded by default): whatever writes the other requests
\* are in the middle of, a request is served.  One that calls call_tts either
\* runs it from the POST to the end of write_bytes with no other request in
\* between, under an id no file has yet, or it is a request whose call of
\* call_tts was inside write_bytes while others were served and whose write
\* is over.
TtsChoices(cs, ids, wavs) ==
    IF UsesTts(cs)
    THEN TtsAnswers(files, ids, wavs)
         \cup {w.ta : w \in {x \in writing : x.stage = "written"}}
    ELSE {NoAnswer}

\* the utterance text a turn request carries, if it carries one
TwilioUtterance(form) ==
    IF "SpeechResult" \in DOMAIN form
    THEN [present |-> TRUE, text |-> form.SpeechResult]
    ELSE [present |-> FALSE, text |-> << >>]

JambonzHasTranscript(body) ==
    /\ body.k = "obj"
    /\ "speech" \in DOMAIN body.f
    /\ body.f.speech.k = "obj"
    /\ "alternatives" \in DOMAIN body.f.speech.f
    /\ body.f.speech.f.alternatives.k = "list"
    /\ Len(body.f.speech.f.alternatives.l) > 0
    /\ body.f.speech.f.alternatives.l[1].k = "obj"
    /\ "transcript" \in DOMAIN body.f.speech.f.alternatives.l[1].f
    /\ body.f.speech.f.alternatives.l[1].f.transcript.k = "str"

JambonzUtterance(body) ==
    IF JambonzHasTranscript(body)
    THEN [present |-> TRUE,
          text |-> body.f.speech.f.alternatives.l[1].f.transcript.s]
    ELSE [present |-> FALSE, text |-> << >>]

\* r is a turn request that the view takes for one without speech: what it
\* reads as the utterance, with the defaults of its reads for what the
\* request does not carry, is falsy (`if not speech_result`, `if not
\* speech_text`)
EmptyUtterance(r) ==
    \/ /\ r.route = "/gather"
       /\ FormGet(r.form, "SpeechResult", << >>) = << >>
    \/ /\ r.route = "/jambonz-gather"
       /\ r.body.k # "absent_raise"
       /\ \E transcript \in {jambonz_transcript(request_json(r.body))} :
             /\ transcript.raised = ""
             /\ ~Truthy(transcript.value)

\* the turns without speech in a row once request r is served
Silences(r) ==
    IF EmptyUtterance(r)
    THEN IF silences < MaxSilences THEN silences + 1 ELSE silences
    ELSE 0

\* the threads of the server
Threads == 1..MaxThreads

\* a thread that handles no request
IdleThread ==
    [pc |-> "idle", audio_id |-> 0, content |-> << >>, written |-> 0,
     audio_url |-> None, filename |-> << >>, from_doc |-> FALSE,
     status |-> 0, body |-> << >>]

\* no call has arrived yet
NoCall == [at |-> "ringing", pos |-> 0, said_closing |-> FALSE,
           timed_out |-> FALSE]

\* the threads of the TTS server
Workers == 1..MaxWorkers

\* a thread of the TTS server that handles no request
IdleWorker == [pc |-> "idle", route |-> "", built |-> None, tts |-> None]

(***************************************************************************)
(* The server                                                              *)
(***************************************************************************)
Init ==
    /\ flowId \in FlowIds
    /\ files = EmptyMap
    /\ puts = << >>
    /\ writing = NoWrite
    /\ req = [route |-> "start"]
    /\ env = [llm |-> NoAnswer, tts |-> NoAnswer]
    /\ calls = << >>
    /\ resp = [status |-> 0, mimetype |-> "", wellformed |-> TRUE,
               doc |-> << >>, body |-> << >>, json |-> EmptyMap]
    /\ silences = 0
    /\ threads = [t \in Threads |-> IdleThread]
    /\ played = {}
    /\ call = NoCall
    /\ tts_model = None
    /\ workers = [w \in Workers |-> IdleWorker]
    /\ constructed = 0

\* the log of writes of audio files: for each write_bytes that created a
\* file, its name, the bytes handed to it, and whether it completed
Recorded(cs, ta) ==
    IF UsesTts(cs) /\ Creates(ta) /\ ~InFlight(ta)
    THEN Append(puts, [name |-> AudioName(ta.audio_id), content |-> ta.content,
                       complete |-> ta.write = "ok"])
    ELSE puts

\* one request served: it is answered by the view result v, where the
\* synthesis endpoint answered ta
Serve(ta, v) ==
    /\ resp' = v.resp
    /\ files' = v.files
    /\ calls' = v.calls
    /\ puts' = Recorded(v.calls, ta)
    /\ writing' = IF UsesTts(v.calls) /\ InFlight(ta)
                   THEN writing \ {[stage |-> "written", ta |-> ta]}
                   ELSE writing
    /\ silences' = Silences(req')
    /\ UNCHANGED <<flowId, threads, played>>
    /\ UNCHANGED ttsVars

\* POST /voice with a form, answered while the synthesis endpoint answers ta
VoiceRequest(forms, ids, wavs) ==
    \E form \in forms :
        /\ req' = [route |-> "/voice", form |-> form]
        /\ \E ta \in TtsChoices(<<TtsCall(JStr(GREETING), "en")>>, ids, wavs) :
              /\ env' = [llm |-> NoAnswer, tts |-> ta]
              /\ \E v \in {twilio_voice(form, ta, files)} : Serve(ta, v)

\* POST /gather with a form, answered while the backends answer la and ta
GatherRequest(forms, las, ids, wavs) ==
    \E form \in forms :
        /\ req' = [route |-> "/gather", form |-> form]
        /\ \E probe \in
                 {twilio_gather(form, flowId, NoAnswer, NoAnswer, files)} :
           \E ta \in TtsChoices(probe.calls, ids, wavs),
              la \in LlmChoices(probe.calls, las) :
              /\ env' = [llm |-> la, tts |-> ta]
              /\ \E v \in {twilio_gather(form, flowId, la, ta, files)} :
                    Serve(ta, v)

\* POST /jambonz with a body
JambonzRequest(bodies, ids, wavs) ==
    \E body \in bodies :
        /\ req' = [route |-> "/jambonz", body |-> body]
        /\ \E probe \in {jambonz_webhook(body, NoAnswer, files)} :
           \E ta \in TtsChoices(probe.calls, ids, wavs) :
              /\ env' = [llm |-> NoAnswer, tts |-> ta]
              /\ \E v \in {jambonz_webhook(body, ta, files)} : Serve(ta, v)

\* POST /jambonz-gather with a body
JambonzGatherRequest(bodies, las, ids, wavs) ==
    \E body \in bodies :
        /\ req' = [route |-> "/jambonz-gather", body |-> body]
        /\ \E probe \in
                 {jambonz_gather(body, flowId, NoAnswer, NoAnswer, files)} :
           \E ta \in TtsChoices(probe.calls, ids, wavs),
              la \in LlmChoices(probe.calls, las) :
              /\ env' = [llm |-> la, tts |-> ta]
              /\ \E v \in {jambonz_gather(body, flowId, la, ta, files)} :
                    Serve(ta, v)

AudioRequest(ids) ==
    \E filename \in FileNames(ids) :
        /\ req' = [route |-> "/audio", filename |-> filename]
        /\ env' = [llm |-> NoAnswer, tts |-> NoAnswer]
        /\ resp' = serve_audio(filename, files)
        /\ calls' = << >>
        /\ UNCHANGED <<flowId, files, puts, writing, silences, threads, played>>
        /\ UNCHANGED ttsVars

\* call_tts of a request reaches write_bytes, which opens the file under a
\* fresh id: the file exists and is empty while other requests are served,
\* whatever other files are being written
WriteBytesOpens(ids, wavs) ==
    /\ \E ta \in {a \in TtsAnswers(files, ids, wavs) : Creates(a)} :
          /\ files' = Holding(files, AudioName(ta.audio_id), << >>)
          /\ puts' = Append(puts, [name |-> AudioName(ta.audio_id),
                                   content |-> ta.content,
                                   complete |-> FALSE])
          /\ writing' = writing \cup {[stage |-> "opened", ta |-> ta]}
    /\ UNCHANGED <<flowId, req, env, calls, resp, silences, threads, played>>
    /\ UNCHANGED ttsVars

\* write_bytes writes the bytes, all of them or the first ones, and is over;
\* the request that called call_tts has not returned yet
WriteBytesWrites ==
    /\ \E w \in {x \in writing : x.stage = "opened"} :
          /\ files' = write_bytes(files, AudioName(w.ta.audio_id),
                                  w.ta.content, w.ta)
          /\ puts' = [i \in 1..Len(puts) |->
                         IF puts[i].name = AudioName(w.ta.audio_id)
                         THEN [puts[i] EXCEPT !.complete = w.ta.write = "ok"]
                         ELSE puts[i]]
          /\ writing' = (writing \ {w})
                            \cup {[stage |-> "written", ta |-> w.ta]}
    /\ UNCHANGED <<flowId, req, env, calls, resp, silences, threads, played>>
    /\ UNCHANGED ttsVars

TwilioVoice == VoiceRequest(VoiceForms, AudioIds, OneWav) /\ UNCHANGED call
TwilioGather ==
    /\ GatherRequest(GatherForms, LlmAnswers(flowId), AudioIds, OneWav)
    /\ UNCHANGED call
JambonzWebhook == JambonzRequest(JambonzBodies, AudioIds, OneWav) /\ UNCHANGED call
JambonzGather ==
    /\ JambonzGatherRequest(JambonzGatherBodies, LlmAnswers(flowId), AudioIds,
                            OneWav)
    /\ UNCHANGED call
JambonzNoBody ==
    /\ \/ JambonzRequest(NoBodies, AudioIds, OneWav)
       \/ JambonzGatherRequest(NoBodies, LlmAnswers(flowId), AudioIds, OneWav)
    /\ UNCHANGED call
ServeAudio == AudioRequest(AudioIds) /\ UNCHANGED call
AudioFileOpens == WriteBytesOpens(AudioIds, OneWav) /\ UNCHANGED call
AudioFileWritten == WriteBytesWrites /\ UNCHANGED call

Next ==
    \/ AudioFileOpens
    \/ AudioFileWritten
    \/ TwilioVoice
    \/ TwilioGather
    \/ JambonzWebhook
    \/ JambonzGather
    \/ JambonzNoBody
    \/ ServeAudio

Spec == Init /\ [][Next]_vars

(***************************************************************************)
(* The artifact store under more writes: greetings, farewells and          *)
(* retrievals over a larger id space                                       *)
(***************************************************************************)
StoreVoice == VoiceRequest({EmptyMap}, StoreIds, Wavs) /\ UNCHANGED call
StoreGather ==
    /\ GatherRequest({[SpeechResult |-> U_BYE, CallSid |-> "CA1"]},
                     LlmAnswers(flowId), StoreIds, Wavs)
    /\ UNCHANGED call
StoreJambonz == JambonzRequest({JObj(EmptyMap)}, StoreIds, Wavs) /\ UNCHANGED call
StoreJambonzGather ==
    /\ JambonzGatherRequest({JbTranscript(U_BYE)}, LlmAnswers(flowId),
                            StoreIds, Wavs)
    /\ UNCHANGED call
StoreAudio == AudioRequest(StoreIds) /\ UNCHANGED call
StoreFileOpens == WriteBytesOpens(StoreIds, Wavs) /\ UNCHANGED call
StoreFileWritten == WriteBytesWrites /\ UNCHANGED call

NextStore ==
    \/ StoreFileOpens
    \/ StoreFileWritten
    \/ StoreVoice
    \/ StoreGather
    \/ StoreJambonz
    \/ StoreJambonzGather
    \/ StoreAudio

SpecStore == Init /\ [][NextStore]_vars

(***************************************************************************)
(* The turns of two calls, of either provider, served one after another    *)
(* while audio files are written: the caller asks a question, says a       *)
(* closing phrase or says nothing                                          *)
(***************************************************************************)
\* the forms of Twilio's turns: a question of either call, a closing phrase,
\* an empty utterance and none
TurnForms ==
    {[SpeechResult |-> U_weather, CallSid |-> c] : c \in {"CA1", "CA2"}}
    \cup {[SpeechResult |-> U_BYE, CallSid |-> "CA2"],
          [SpeechResult |-> << >>, CallSid |-> "CA1"],
          [CallSid |-> "CA2"]}

\* the bodies of Jambonz's turns: a question of either call, a closing
\* phrase, an empty transcript, no transcript and no speech at all
TurnBodies ==
    {JbSpeechOf(c, JList(<<JObj([transcript |-> JStr(U_weather)])>>)) :
        c \in {<<"J","B","1">>, <<"J","B","2">>}}
    \cup {JbTranscript(U_BYE),
          JbTranscript(<< >>),
          JbSpeechOf(<<"J","B","2">>, JList(<<JObj(EmptyMap)>>)),
          JObj(EmptyMap)}

\* the Respond backend fails or gives the reply
TurnLlmAnswers(fid) ==
    {[status |-> "timeout", body |-> JNull],
     [status |-> "ok",
      body |-> IF fid # ""
               THEN LfText([results |->
                               JObj([message |-> JObj([text |-> JStr(REPLY)])])])
               ELSE JObj([response |-> JStr(REPLY)])]}

TurnsGreeting ==
    /\ \/ VoiceRequest({[CallSid |-> "CA1", From |-> "+15550100"]},
                       StoreIds, OneWav)
       \/ JambonzRequest({JObj(EmptyMap)}, StoreIds, OneWav)
    /\ UNCHANGED call
TurnsGather ==
    /\ GatherRequest(TurnForms, TurnLlmAnswers(flowId), StoreIds, OneWav)
    /\ UNCHANGED call
TurnsJambonzGather ==
    /\ JambonzGatherRequest(TurnBodies, TurnLlmAnswers(flowId), StoreIds,
                            OneWav)
    /\ UNCHANGED call
TurnsFileOpens == WriteBytesOpens(StoreIds, OneWav) /\ UNCHANGED call
TurnsFileWritten == WriteBytesWrites /\ UNCHANGED call

NextTurns ==
    \/ TurnsFileOpens
    \/ TurnsFileWritten
    \/ TurnsGreeting
    \/ TurnsGather
    \/ TurnsJambonzGather

SpecTurns == Init /\ [][NextTurns]_vars

(***************************************************************************)
(* Requests handled at the same time.  A thread handles a webhook, which   *)
(* runs call_tts step by step (the POST to the TTS server, then            *)
(* write_bytes: open the file under a fresh id, write its bytes, close it) *)
(* and returns a document that plays the URL call_tts returned; or it      *)
(* handles GET /audio/<filename> (the exists() test, then send_file).      *)
(* The steps of different threads interleave freely.                       *)
(***************************************************************************)
\* what the steps of the threads leave alone: the configuration and the
\* record of the request served last
requestVars == <<flowId, puts, writing, req, env, calls, resp, silences, call,
                 tts_model, workers, constructed>>

\* thread t goes to step pc with locals as given by record `locals`
Goto(t, locals) ==
    threads' = [threads EXCEPT ![t] =
                   [f \in DOMAIN IdleThread |->
                       IF f \in DOMAIN locals THEN locals[f] ELSE threads[t][f]]]

\* thread t is free to take a request: it handles none, or it has sent the
\* response to the retrieval it handled
Free(t) == threads[t].pc \in {"idle", "served"}

\* a greeting or turn webhook reaches its call of call_tts
WebhookArrives(t) ==
    /\ Free(t)
    /\ threads' = [threads EXCEPT ![t] = [IdleThread EXCEPT !.pc = "post"]]
    /\ UNCHANGED <<files, played>>
    /\ UNCHANGED requestVars

\* requests.post and raise_for_status in call_tts
TtsPost(t) ==
    /\ threads[t].pc = "post"
    /\ \/ Goto(t, [pc |-> "return", audio_url |-> None])
       \/ Goto(t, [pc |-> "open", content |-> WAV1])
    /\ UNCHANGED <<files, played>>
    /\ UNCHANGED requestVars

\* uuid4 and the open of write_bytes: the file is created empty, or the
\* open raises
TtsOpen(t) ==
    /\ threads[t].pc = "open"
    /\ \/ \E i \in FreshIds(files, StoreIds) :
             /\ files' = Holding(files, AudioName(i), << >>)
             /\ Goto(t, [pc |-> "write", audio_id |-> i, written |-> 0])
       \/ /\ Goto(t, [pc |-> "return", audio_url |-> None])
          /\ UNCHANGED files
    /\ UNCHANGED played
    /\ UNCHANGED requestVars

\* write_bytes returning after the first byte, with call_tts returning the URL
TtsWrite_Short(t) ==
    /\ threads[t].pc = "write"
    /\ threads[t].written < Len(threads[t].content)
    /\ files' = Holding(files, AudioName(threads[t].audio_id),
                        SubSeq(threads[t].content, 1, threads[t].written + 1))
    /\ Goto(t, [pc |-> "return", written |-> threads[t].written + 1,
                audio_url |-> AudioUrl(threads[t].audio_id)])
    /\ UNCHANGED played
    /\ UNCHANGED requestVars

\* the write of write_bytes: one more byte reaches the file, or the write
\* raises and the file keeps what it holds
TtsWrite(t) ==
    /\ threads[t].pc = "write"
    /\ threads[t].written < Len(threads[t].content)
    /\ \/ /\ files' = Holding(files, AudioName(threads[t].audio_id),
                              SubSeq(threads[t].content, 1,
                                     threads[t].written + 1))
          /\ Goto(t, [written |-> threads[t].written + 1])
       \/ /\ Goto(t, [pc |-> "return", audio_url |-> None])
          /\ UNCHANGED files
    /\ UNCHANGED played
    /\ UNCHANGED requestVars

\* write_bytes is done; call_tts returns the URL of the file
TtsReturns(t) ==
    /\ threads[t].pc = "write"
    /\ threads[t].written = Len(threads[t].content)
    /\ Goto(t, [pc |-> "return", audio_url |-> AudioUrl(threads[t].audio_id)])
    /\ UNCHANGED <<files, played>>
    /\ UNCHANGED requestVars

\* the webhook returns its document: it plays audio_url unless that is None
WebhookReturns(t) ==
    /\ threads[t].pc = "return"
    /\ played' = IF threads[t].audio_url # None
                 THEN played \cup {[audio_id |-> threads[t].audio_id,
                                    content |-> threads[t].content]}
                 ELSE played
    /\ threads' = [threads EXCEPT ![t] = IdleThread]
    /\ UNCHANGED files
    /\ UNCHANGED requestVars

\* the names of the files the documents returned so far play
PlayedNames == {AudioName(p.audio_id) : p \in played}

\* GET /audio/<filename> arrives, for a URL of a document or any other name
AudioArrives(t) ==
    /\ Free(t)
    /\ \E filename \in FileNames(StoreIds) :
          threads' = [threads EXCEPT ![t] =
                         [IdleThread EXCEPT !.pc = "exists",
                                            !.filename = filename,
                                            !.from_doc = filename \in PlayedNames]]
    /\ UNCHANGED <<files, played>>
    /\ UNCHANGED requestVars

\* audio_path.exists() in serve_audio
AudioExists(t) ==
    /\ threads[t].pc = "exists"
    /\ IF exists(files, threads[t].filename)
       THEN Goto(t, [pc |-> "send"])
       ELSE Goto(t, [pc |-> "served", status |-> 404])
    /\ UNCHANGED <<files, played>>
    /\ UNCHANGED requestVars

\* send_file reads the file; the response stays with the thread until it
\* takes its next request
AudioSend(t) ==
    /\ threads[t].pc = "send"
    /\ \E r \in {send_file(files, threads[t].filename)} :
          Goto(t, [pc |-> "served", status |-> r.status, body |-> r.body])
    /\ UNCHANGED <<files, played>>
    /\ UNCHANGED requestVars

ThreadStep(t) ==
    \/ WebhookArrives(t)
    \/ TtsPost(t)
    \/ TtsOpen(t)
    \/ TtsWrite(t)
    \/ TtsReturns(t)
    \/ WebhookReturns(t)
    \/ AudioArrives(t)
    \/ AudioExists(t)
    \/ AudioSend(t)

NextThreads == \E t \in Threads : ThreadStep(t)

SpecThreads == Init /\ [][NextThreads]_vars

(***************************************************************************)
(* Reading a request and a document                                        *)
(***************************************************************************)
IsTurn == req.route \in {"/gather", "/jambonz-gather"}
IsGreeting == req.route \in {"/voice", "/jambonz"}

IsPlay(e) == e.verb \in {"Play", "play"}
IsSay(e) == e.verb \in {"Say", "say"}
IsGather(e) == e.verb \in {"Gather", "gather"}
IsHangup(e) == e.verb \in {"Hangup", "hangup"}

GatherAction(e) == IF e.verb = "Gather" THEN e.action ELSE e.actionHook

\* the turn endpoint of the provider a route belongs to
TurnEndpoint(route) ==
    IF route \in {"/voice", "/gather"}
    THEN <<BASE_URL, "/gather">>
    ELSE <<BASE_URL, "/jambonz-gather">>

HasGather(d) == \E i \in 1..Len(d) : IsGather(d[i])
HasPlay(d) == \E i \in 1..Len(d) : IsPlay(d[i])

Utterance ==
    IF req.route = "/gather"
    THEN TwilioUtterance(req.form)
    ELSE JambonzUtterance(req.body)

\* the closing-phrase set: goodbye, bye, hang up, end call, that's all
ClosingPhraseSet ==
    << <<"g","o","o","d","b","y","e">>,
       <<"b","y","e">>,
       <<"h","a","n","g"," ","u","p">>,
       <<"e","n","d"," ","c","a","l","l">>,
       <<"t","h","a","t","'","s"," ","a","l","l">> >>

IsClosing(text) == AnyPhrase(text, ClosingPhraseSet)

\* the fixed farewell of the provider a route belongs to
Farewell(route) ==
    IF route = "/gather" THEN TWILIO_FAREWELL ELSE JAMBONZ_FAREWELL

\* the value handed to the Synthesize backend during this request
Synthesized == calls[Len(calls)].json.text

\* the value instruction e says: the text the provider reads in a TwiML
\* element, the value under "text" in a verb of the other provider
Said(e) == IF e.verb = "Say" THEN JStr(e.text) ELSE e.text

\* the turn ends the call: its document hangs up without listening again
Terminal(d) == Len(d) > 0 /\ IsHangup(d[Len(d)]) /\ ~HasGather(d)

\* the document listens again, at the turn endpoint of the request's provider
Listens(d) ==
    /\ HasGather(d)
    /\ \A i \in 1..Len(d) :
          IsGather(d[i]) => GatherAction(d[i]) = TurnEndpoint(req.route)

(***************************************************************************)
(* C1: a turn request of either provider whose utterance contains a        *)
(* closing phrase (in any letter case) is answered by a terminal document  *)
(* that speaks the provider's fixed farewell.                              *)
(***************************************************************************)
C1_ClosingPhraseTerminates ==
    (IsTurn /\ Utterance.present /\ IsClosing(Utterance.text))
    => /\ resp.status = 200
       /\ Terminal(resp.doc)
       /\ UsesTts(calls)
       /\ Synthesized = JStr(Farewell(req.route))

(***************************************************************************)
(* C2: a turn request of either provider whose utterance is the empty      *)
(* string is answered by the fixed re-prompt followed by a new gather, and *)
(* the Respond backend is not called.                                      *)
(***************************************************************************)
C2_EmptyUtteranceReprompts ==
    (IsTurn /\ Utterance.present /\ Utterance.text = << >>)
    => /\ resp.status = 200
       /\ IsSay(resp.doc[1])
       /\ Said(resp.doc[1]) = JStr(REPROMPT)
       /\ Listens(resp.doc)
       /\ ~Terminal(resp.doc)
       /\ ~UsesLlm(calls)

C2_Witness ==
    /\ req.route = "/jambonz-gather"
    /\ Utterance.present
    /\ Utterance.text = << >>
    /\ resp.status = 200
    /\ HasGather(resp.doc)

(***************************************************************************)
(* C3: for a non-empty utterance without closing phrase, when the Respond  *)
(* backend answers with a text, that text is exactly what is synthesized   *)
(* and, on the say branch, what the document says, as the provider reads   *)
(* the document; for both backends.                                        *)
(***************************************************************************)
\* the text a successful answer of the direct backend carries
DirectHasText(ans) ==
    /\ ans.status = "ok"
    /\ ans.body.k = "obj"
    /\ "response" \in DOMAIN ans.body.f
    /\ ans.body.f.response.k = "str"

\* the text a successful answer of the workflow backend carries, at
\* outputs[0].outputs[0].results.message.text
WorkflowMessage(ans) == ans.body.f.outputs.l[1].f.outputs.l[1].f.results.f.message

WorkflowHasText(ans) ==
    /\ ans.status = "ok"
    /\ ans.body.k = "obj"
    /\ "outputs" \in DOMAIN ans.body.f
    /\ ans.body.f.outputs.k = "list"
    /\ Len(ans.body.f.outputs.l) > 0
    /\ ans.body.f.outputs.l[1].k = "obj"
    /\ "outputs" \in DOMAIN ans.body.f.outputs.l[1].f
    /\ ans.body.f.outputs.l[1].f.outputs.k = "list"
    /\ Len(ans.body.f.outputs.l[1].f.outputs.l) > 0
    /\ ans.body.f.outputs.l[1].f.outputs.l[1].k = "obj"
    /\ "results" \in DOMAIN ans.body.f.outputs.l[1].f.outputs.l[1].f
    /\ ans.body.f.outputs.l[1].f.outputs.l[1].f.results.k = "obj"
    /\ "message" \in DOMAIN ans.body.f.outputs.l[1].f.outputs.l[1].f.results.f
    /\ WorkflowMessage(ans).k = "obj"
    /\ "text" \in DOMAIN WorkflowMessage(ans).f
    /\ WorkflowMessage(ans).f.text.k = "str"

RespondSucceeded ==
    IF flowId # "" THEN WorkflowHasText(env.llm) ELSE DirectHasText(env.llm)

ReplyText ==
    IF flowId # ""
    THEN WorkflowMessage(env.llm).f.text.s
    ELSE env.llm.body.f.response.s

NormalTurn ==
    /\ IsTurn
    /\ Utterance.present
    /\ Utterance.text # << >>
    /\ ~IsClosing(Utterance.text)

C3_ReplyIsSpoken ==
    (NormalTurn /\ RespondSucceeded)
    => /\ resp.status = 200
       /\ resp.wellformed
       /\ UsesTts(calls)
       /\ Synthesized = JStr(ReplyText)
       /\ ~IsPlay(resp.doc[1])
             => (IsSay(resp.doc[1]) /\ Said(resp.doc[1]) = JStr(ReplyText))

C3_Witness ==
    /\ flowId # ""
    /\ req.route = "/gather"
    /\ Utterance.present
    /\ Utterance.text = U_weather
    /\ RespondSucceeded
    /\ ReplyText = REPLY
    /\ IsSay(resp.doc[1])
    /\ Said(resp.doc[1]) = JStr(REPLY)

(***************************************************************************)
(* C4: when the Respond backend call fails (timeout, connection error,     *)
(* non-2xx status, payload without a reply text), the turn is answered by  *)
(* a non-terminal document, a fixed apology text is synthesized and        *)
(* spoken, and the request does not end in a fault.                        *)
(***************************************************************************)
\* the canned texts the Respond clients substitute for a reply
ApologyTexts ==
    {JStr(APOLOGY_LLM), JStr(DEFAULT_LLM), JStr(APOLOGY_LANGFLOW),
     JStr(DEFAULT_LANGFLOW)}

RespondFailed == UsesLlm(calls) /\ ~RespondSucceeded

C4_RespondFailureApologises ==
    (IsTurn /\ RespondFailed)
    => /\ resp.status = 200
       /\ ~Terminal(resp.doc)
       /\ Listens(resp.doc)
       /\ UsesTts(calls)
       /\ Synthesized \in ApologyTexts
       /\ ~IsPlay(resp.doc[1]) => Said(resp.doc[1]) \in ApologyTexts

(***************************************************************************)
(* C5: when the Synthesize call of a greeting or turn request fails        *)
(* (transport, status, or the write of the file), the document the         *)
(* provider reads holds no play, it says the very text that was handed to  *)
(* Synthesize, and it terminates exactly when it would have with a         *)
(* successful synthesis.                                                   *)
(***************************************************************************)
SynthesisFailed ==
    UsesTts(calls) /\ ~(env.tts.status = "ok" /\ env.tts.write = "ok")

\* a successful answer of the Synthesize backend
SomeAudio ==
    [status |-> "ok", content |-> WAV2, audio_id |-> 1, write |-> "ok",
     written |-> 1]

\* the view of request r run under answers la, ta
ViewOf(r, la, ta) ==
    CASE r.route = "/voice" -> twilio_voice(r.form, ta, files)
      [] r.route = "/gather" -> twilio_gather(r.form, flowId, la, ta, files)
      [] r.route = "/jambonz" -> jambonz_webhook(r.body, ta, files)
      [] r.route = "/jambonz-gather" ->
            jambonz_gather(r.body, flowId, la, ta, files)

C5_SynthesisFailureSaysText ==
    ((IsGreeting \/ IsTurn) /\ SynthesisFailed)
    => /\ resp.status = 200
       /\ resp.wellformed
       /\ ~HasPlay(resp.doc)
       /\ IsSay(resp.doc[1])
       /\ Said(resp.doc[1]) = Synthesized
       /\ Terminal(resp.doc) = Terminal(ViewOf(req, env.llm, SomeAudio).resp.doc)

C5_Witness ==
    /\ req.route = "/gather"
    /\ NormalTurn
    /\ RespondSucceeded
    /\ ReplyText = REPLY
    /\ env.tts.status = "ok"
    /\ env.tts.write = "write_failed"
    /\ IsSay(resp.doc[1])
    /\ Said(resp.doc[1]) = JStr(REPLY)
    /\ HasGather(resp.doc)

(***************************************************************************)
(* C6: in every document of a greeting or turn request, as the provider    *)
(* reads it, the spoken output is one instruction, the first: a play of    *)
(* the audio reference when the synthesis stored one, otherwise a say of   *)
(* the spoken text; never both, never neither.                             *)
(***************************************************************************)
\* the audio reference of this request: the URL of the file it stored
AudioRef ==
    IF UsesTts(calls) /\ env.tts.status = "ok" /\ env.tts.write = "ok"
    THEN AudioUrl(env.tts.audio_id)
    ELSE None

\* instruction e neither plays anything nor says t
Silent(e, t) == ~IsPlay(e) /\ ~(IsSay(e) /\ Said(e) = t)

\* no instruction after the first, nor inside a gather, plays or says t
OnlyFirstSpeaks(d, t) ==
    /\ \A i \in 2..Len(d) : Silent(d[i], t)
    /\ \A i \in 1..Len(d) :
          "children" \in DOMAIN d[i] =>
              \A c \in 1..Len(d[i].children) : Silent(d[i].children[c], t)

C6_PlayXorSay ==
    ((IsGreeting \/ IsTurn) /\ resp.status = 200)
    => IF AudioRef # None
       THEN /\ IsPlay(resp.doc[1])
            /\ resp.doc[1].url = AudioRef
            /\ OnlyFirstSpeaks(resp.doc, Synthesized)
       ELSE /\ resp.wellformed
            /\ IsSay(resp.doc[1])
            /\ UsesTts(calls) => Said(resp.doc[1]) = Synthesized
            /\ OnlyFirstSpeaks(resp.doc, Said(resp.doc[1]))

C6_Witness ==
    /\ req.route = "/voice"
    /\ AudioRef # None
    /\ IsPlay(resp.doc[1])
    /\ resp.doc[1].url = AudioRef

(***************************************************************************)
(* C7: every document of a turn request is one the provider can read and   *)
(* leaves the call hung up or listening: the farewell turn gives           *)
(* play-or-say then hangup, without gather; every other turn gives a       *)
(* document with a gather whose action is the turn endpoint of the same    *)
(* provider.                                                               *)
(***************************************************************************)
\* the view took its farewell branch
FarewellTurn ==
    UsesTts(calls) /\ ~UsesLlm(calls) /\ Synthesized = JStr(Farewell(req.route))

C7_ListeningOrHungUp ==
    (IsTurn /\ resp.status = 200)
    => /\ resp.wellformed
       /\ IF FarewellTurn
          THEN /\ Len(resp.doc) = 2
               /\ IsPlay(resp.doc[1]) \/ IsSay(resp.doc[1])
               /\ IsHangup(resp.doc[2])
          ELSE Listens(resp.doc)

C7_Witness ==
    /\ req.route = "/jambonz-gather"
    /\ ~FarewellTurn
    /\ UsesLlm(calls)
    /\ resp.status = 200
    /\ Listens(resp.doc)

(***************************************************************************)
(* C8: a turn request whose utterance is missing (absent SpeechResult,     *)
(* speech, alternatives, transcript or body, empty alternatives) ends in   *)
(* the re-prompt document, never in a fault.                               *)
(***************************************************************************)
C8_MissingInputReprompts ==
    (IsTurn /\ ~Utterance.present)
    => /\ resp.status = 200
       /\ IsSay(resp.doc[1])
       /\ Said(resp.doc[1]) = JStr(REPROMPT)
       /\ Listens(resp.doc)

(***************************************************************************)
(* C9: the greeting request of each provider is answered by a document     *)
(* that plays or says the fixed greeting, then gathers speech for that     *)
(* provider's turn endpoint, then says a fallback message and hangs up;    *)
(* the Respond backend is not called.                                      *)
(***************************************************************************)
C9_GreetingDocument ==
    IsGreeting
    => /\ resp.status = 200
       /\ UsesTts(calls)
       /\ Synthesized = JStr(GREETING)
       /\ \/ IsPlay(resp.doc[1]) /\ AudioRef # None /\ resp.doc[1].url = AudioRef
          \/ IsSay(resp.doc[1]) /\ Said(resp.doc[1]) = JStr(GREETING)
       /\ Listens(resp.doc)
       /\ \E i \in 2..(Len(resp.doc) - 2) :
             /\ IsGather(resp.doc[i])
             /\ IsSay(resp.doc[i + 1])
             /\ IsHangup(resp.doc[i + 2])
       /\ ~UsesLlm(calls)

C9_Witness ==
    /\ req.route = "/voice"
    /\ puts = << >>
    /\ IsSay(resp.doc[1])
    /\ Said(resp.doc[1]) = JStr(GREETING)
    /\ IsGather(resp.doc[2])
    /\ GatherAction(resp.doc[2]) = <<BASE_URL, "/gather">>

(***************************************************************************)
(* C10: the bytes of every completed write stay retrievable unchanged      *)
(* under their id, whatever is stored afterwards; a retrieval of a stored  *)
(* id returns exactly its bytes, and a retrieval of a name under which no  *)
(* write has completed returns 404 with an error body.                     *)
(***************************************************************************)
\* every completed write is in the store under its name, with its bytes
StoredStay ==
    \A i \in 1..Len(puts) :
        puts[i].complete =>
            /\ puts[i].name \in DOMAIN files
            /\ files[puts[i].name] = puts[i].content

\* the answer of a retrieval: the bytes of the write completed under the
\* name before it, and 404 for a name under which no write has completed
RetrievalAnswers ==
    /\ \A i \in 1..Len(puts) :
          (puts[i].complete /\ puts[i].name = req'.filename) =>
              /\ resp'.status = 200
              /\ resp'.body = puts[i].content
    /\ (\A i \in 1..Len(puts) :
            ~(puts[i].complete /\ puts[i].name = req'.filename)) =>
          /\ resp'.status = 404
          /\ "error" \in DOMAIN resp'.json
          /\ resp'.json.error = "Audio not found"

C10_StoreRoundTrip ==
    /\ []StoredStay
    /\ [][StoreAudio => RetrievalAnswers]_vars

C10_Witness ==
    /\ req.route = "/audio"
    /\ Len(puts) >= 2
    /\ puts[1].complete
    /\ puts[2].complete
    /\ puts[1].content # puts[2].content
    /\ req.filename = puts[1].name
    /\ resp.status = 200
    /\ resp.body = puts[1].content

(***************************************************************************)
(* C11: every non-terminal document of a turn request, of either provider, *)
(* holds after its gather a say of "Are you still there?", which the       *)
(* provider executes when that gather times out.                           *)
(***************************************************************************)

\* after a gather of d comes a say of text t
SaysAfterGather(d, t) ==
    \E i \in 1..Len(d) :
        /\ IsGather(d[i])
        /\ \E j \in (i + 1)..Len(d) : IsSay(d[j]) /\ Said(d[j]) = JStr(t)

C11_StillThereFallback ==
    (IsTurn /\ resp.status = 200 /\ ~Terminal(resp.doc))
    => SaysAfterGather(resp.doc, STILL_THERE)

(***************************************************************************)
(* C12: every non-terminal document of a turn request carries an audio     *)
(* reference or a non-empty spoken text, whatever the backends answered:   *)
(* it never says the empty string with nothing played.                     *)
(***************************************************************************)
C12_NeverSaysNothing ==
    (IsTurn /\ resp.status = 200 /\ ~Terminal(resp.doc))
    => \/ AudioRef # None /\ IsPlay(resp.doc[1])
       \/ /\ IsSay(resp.doc[1])
          /\ Said(resp.doc[1]).k = "str"
          /\ Said(resp.doc[1]).s # << >>

(***************************************************************************)
(* C13: for a turn request with a non-empty utterance that holds no        *)
(* closing phrase, the Respond backend is called with a request that       *)
(* carries the utterance.  The request to the completion endpoint carries  *)
(* the system prompt too, in front of the utterance in its prompt; the     *)
(* request to the workflow endpoint carries the utterance and the two chat *)
(* types only.                                                             *)
(***************************************************************************)
RespondRequest == calls[1]

RespondCarriesUtterance ==
    IF RespondRequest.svc = "ollama"
    THEN /\ Len(RespondRequest.json.prompt) >= 3
         /\ RespondRequest.json.prompt[3] = Utterance.text
    ELSE RespondRequest.json.input_value = Utterance.text

RespondCarriesPersona ==
    IF RespondRequest.svc = "ollama"
    THEN RespondRequest.json.prompt[1] = SYSTEM_PROMPT
    ELSE \E k \in DOMAIN RespondRequest.json \ {"input_value"} :
            RespondRequest.json[k] = SYSTEM_PROMPT

C13_RespondRequest ==
    NormalTurn
    => /\ UsesLlm(calls)
       /\ RespondRequest.svc \in {"ollama", "langflow"}
       /\ RespondCarriesUtterance
       /\ RespondRequest.svc = "ollama" => RespondCarriesPersona
       /\ RespondRequest.svc = "langflow"
          => /\ DOMAIN RespondRequest.json
                  = {"input_value", "output_type", "input_type"}
             /\ RespondRequest.json.output_type = "chat"
             /\ RespondRequest.json.input_type = "chat"

C13_Witness ==
    /\ NormalTurn
    /\ resp.status = 200
    /\ Len(calls) = 2
    /\ RespondRequest.svc = "langflow"
    /\ RespondRequest.json.input_value = U_weather

\* C13 as claimed: the request carries the utterance and the system prompt,
\* whichever Respond backend is configured
C13_PersonaToEveryBackend ==
    NormalTurn
    => /\ UsesLlm(calls)
       /\ RespondCarriesUtterance
       /\ RespondCarriesPersona

(***************************************************************************)
(* C14: with the workflow backend configured, a turn whose workflow call   *)
(* succeeds with a JSON object that holds no text at                       *)
(* outputs[0].outputs[0].results.message.text speaks one of the fixed      *)
(* apology texts, as a failed Respond call does.                           *)
(***************************************************************************)
WorkflowUnparsable ==
    /\ flowId # ""
    /\ UsesLlm(calls)
    /\ env.llm.status = "ok"
    /\ env.llm.body.k = "obj"
    /\ ~WorkflowHasText(env.llm)

C14_UnparsableWorkflowIsFailure ==
    (IsTurn /\ WorkflowUnparsable)
    => /\ UsesTts(calls)
       /\ Synthesized \in {JStr(APOLOGY_LANGFLOW), JStr(DEFAULT_LANGFLOW)}

(***************************************************************************)
(* C15: the flow id is fixed when the process starts and never changes;    *)
(* every Respond call of every request goes to the workflow endpoint of    *)
(* that flow id when one is configured and to the completion endpoint      *)
(* otherwise, and no request calls both, whether the call fails or not.    *)
(***************************************************************************)
RespondCalls == {n \in 1..Len(calls) : calls[n].svc \in {"ollama", "langflow"}}

WorkflowEndpoint == <<LANGFLOW_URL, "/api/v1/run/", flowId>>
DirectEndpoint == <<LLM_URL, "/api/generate">>

RespondGoesToSelected ==
    /\ \A n \in RespondCalls :
          IF flowId # ""
          THEN calls[n].svc = "langflow" /\ calls[n].url = WorkflowEndpoint
          ELSE calls[n].svc = "ollama" /\ calls[n].url = DirectEndpoint
    /\ \A m, n \in RespondCalls : calls[m].svc = calls[n].svc

C15_StaticBackendSelection ==
    /\ [][flowId' = flowId]_vars
    /\ []RespondGoesToSelected

\* the workflow backend is configured, its call failed, and the turn went on
\* to Synthesize without calling the completion endpoint
C15_Witness ==
    /\ IsTurn
    /\ flowId # ""
    /\ env.llm.status \in HttpFailures
    /\ Len(calls) = 2
    /\ calls[1].svc = "langflow"
    /\ calls[2].svc = "tts"
    /\ Cardinality(RespondCalls) = 1

(***************************************************************************)
(* C16: every turn request that carries an utterance (empty, closing or    *)
(* other) calls the Synthesize backend with the text the turn speaks and   *)
(* language "en"; that call is the last outbound call of the request, so   *)
(* it comes after the Respond call and before the document is returned.    *)
(***************************************************************************)
SynthesizeCalls == {n \in 1..Len(calls) : calls[n].svc = "tts"}

C16_SynthesizeOnEveryTurn ==
    (IsTurn /\ Utterance.present /\ resp.status = 200)
    => /\ SynthesizeCalls # {}
       /\ \A n \in SynthesizeCalls :
             /\ calls[n].json.language = "en"
             /\ \A m \in RespondCalls : m < n
             /\ IsSay(resp.doc[1]) => Said(resp.doc[1]) = calls[n].json.text

(***************************************************************************)
(* C17: a request makes at most one call to the Respond backend and at     *)
(* most one call to the Synthesize backend, whether they succeed or fail;  *)
(* a failed call is answered once, on the say branch: the request is       *)
(* answered and its document plays nothing.                                *)
(***************************************************************************)
C17_NoRetry ==
    /\ Cardinality(RespondCalls) <= 1
    /\ Cardinality(SynthesizeCalls) <= 1
    /\ Len(calls) = Cardinality(RespondCalls) + Cardinality(SynthesizeCalls)
    /\ (SynthesizeCalls # {} /\ SynthesisFailed)
       => (resp.status = 200 /\ ~HasPlay(resp.doc))

\* both backends failed within one turn: one call each, then the apology said
C17_Witness ==
    /\ IsTurn
    /\ env.llm.status \in HttpFailures
    /\ env.tts.status \in HttpFailures
    /\ Len(calls) = 2
    /\ resp.status = 200
    /\ IsSay(resp.doc[1])
    /\ Said(resp.doc[1]) \in {JStr(APOLOGY_LLM), JStr(APOLOGY_LANGFLOW)}

(***************************************************************************)
(* C18: the document of a turn request depends only on the utterance its   *)
(* view reads from the request and on what the backends answer during the  *)
(* request, the id of the audio file apart.  A turn request served right   *)
(* after a turn request of the same endpoint, with the same utterance and  *)
(* the same backend answers, gets the same document, whatever call each    *)
(* of the two belongs to, whatever was served before the first and         *)
(* whatever files were written in between.  A turn without speech that     *)
(* follows turns without speech gets the re-prompt document that listens   *)
(* again, as the first one does.                                           *)
(***************************************************************************)
\* the view of turn request r run under answers la, ta in a process whose
\* audio store is fs
TurnView(r, la, ta, fs) ==
    IF r.route = "/gather"
    THEN twilio_gather(r.form, flowId, la, ta, fs)
    ELSE jambonz_gather(r.body, flowId, la, ta, fs)

\* the utterance turn request r gives its view: the value the view's reads
\* end with, with their defaults for what r does not carry, or the
\* exception they raise
Heard(r) ==
    IF r.route = "/gather"
    THEN [raised |-> "", value |-> JStr(FormGet(r.form, "SpeechResult", << >>))]
    ELSE IF r.body.k = "absent_raise"
    THEN [raised |-> "UnsupportedMediaType"]
    ELSE jambonz_transcript(request_json(r.body))

\* a synthesis answer with the fresh id left out
WithoutId(ta) ==
    IF "audio_id" \in DOMAIN ta THEN [ta EXCEPT !.audio_id = 0] ELSE ta

\* a response with the id of the audio file its document plays left out
WithoutIds(r) ==
    [r EXCEPT !.doc =
        [i \in 1..Len(r.doc) |->
            IF IsPlay(r.doc[i])
            THEN [r.doc[i] EXCEPT !.url =
                     [j \in 1..Len(r.doc[i].url) |->
                         IF j = 3 THEN 0 ELSE r.doc[i].url[j]]]
            ELSE r.doc[i]]]

\* the request served in this step is a turn request of the endpoint of the
\* one served before it, with the same utterance and the same backend answers
SameTurn ==
    /\ IsTurn
    /\ IsTurn'
    /\ req'.route = req.route
    /\ Heard(req') = Heard(req)
    /\ env'.llm = env.llm
    /\ WithoutId(env'.tts) = WithoutId(env.tts)

\* a turn without speech is answered by the re-prompt that listens again
RepromptsAgain ==
    (IsTurn /\ silences > 0)
    => /\ resp.status = 200
       /\ Said(resp.doc[1]) = JStr(REPROMPT)
       /\ Listens(resp.doc)
       /\ ~Terminal(resp.doc)

C18_Stateless ==
    /\ [][SameTurn => WithoutIds(resp') = WithoutIds(resp)]_vars
    /\ []RepromptsAgain

\* a turn of the second call that carries no utterance, after
\* MaxSilences - 1 turns without speech in a row, in a process that has
\* stored the audio of two earlier requests: answered by the re-prompt
C18_Witness ==
    /\ req.route = "/gather"
    /\ req.form = [CallSid |-> "CA2"]
    /\ silences = MaxSilences
    /\ Len(puts) >= 2
    /\ puts[1].complete
    /\ puts[2].complete
    /\ resp.status = 200
    /\ Said(resp.doc[1]) = JStr(REPROMPT)
    /\ HasGather(resp.doc)

(***************************************************************************)
(* C19: for a turn request that carries an utterance, the handler of the   *)
(* other provider, given the same utterance and the same backend answers,  *)
(* decides the same: it speaks the same text and it ends the call exactly  *)
(* when this one does.                                                     *)
(***************************************************************************)
\* the turn request of the other provider that carries the same utterance
Counterpart(r) ==
    IF r.route = "/gather"
    THEN [route |-> "/jambonz-gather", body |-> JbTranscript(Utterance.text)]
    ELSE [route |-> "/gather",
          form |-> [SpeechResult |-> Utterance.text, CallSid |-> "CA1"]]

\* what a turn speaks: the value handed to Synthesize, else the one said
SpokenText(cs, d) ==
    IF UsesTts(cs) THEN cs[Len(cs)].json.text ELSE Said(d[1])

Decision(cs, d) == [spokenText |-> SpokenText(cs, d), terminate |-> Terminal(d)]

C19_ProviderAgnostic ==
    (IsTurn /\ Utterance.present /\ resp.status = 200)
    => \E v \in {TurnView(Counterpart(req), env.llm, env.tts, EmptyMap)} :
          /\ v.resp.status = 200
          /\ Decision(v.calls, v.resp.doc) = Decision(calls, resp.doc)

(***************************************************************************)
(* C20: however the steps of the threads interleave, every audio file      *)
(* that a returned document plays exists and holds all the bytes           *)
(* synthesized for it, from the return of that document on; so a           *)
(* retrieval of a URL taken from a returned document is answered 200 with  *)
(* exactly those bytes, never 404 and never a part of them.                *)
(***************************************************************************)
C20_PlayedAudioIsComplete ==
    /\ \A p \in played :
          /\ AudioName(p.audio_id) \in DOMAIN files
          /\ files[AudioName(p.audio_id)] = p.content
    /\ \A t \in Threads :
          (threads[t].pc = "served" /\ threads[t].from_doc)
          => /\ threads[t].status = 200
             /\ \E p \in played :
                   /\ AudioName(p.audio_id) = threads[t].filename
                   /\ threads[t].body = p.content

\* a retrieval of a URL from a document is answered while another thread
\* is in the middle of writing another file
C20_Witness ==
    \E t, u \in Threads :
        /\ threads[t].pc = "served"
        /\ threads[t].from_doc
        /\ threads[t].status = 200
        /\ threads[t].body = WAV1
        /\ threads[u].pc = "write"
        /\ threads[u].written = 1
        /\ Len(files[AudioName(threads[u].audio_id)]) = 1

(***************************************************************************)
(* One phone call.  The provider asks the greeting endpoint for a document *)
(* when the call arrives and executes the instructions of the document in  *)
(* order: a play or say runs to its end; a gather ends with the caller's   *)
(* speech, which the provider posts to the gather's action and whose       *)
(* document it executes next, or it times out and the provider goes on     *)
(* with the instruction after the gather; a hangup ends the call.          *)
(***************************************************************************)
\* what the steps of a call leave alone when no webhook is requested
serverVars == <<flowId, files, puts, writing, req, env, calls, resp, silences,
                threads, played>>

\* what the caller says in a call
CallUtterances == {U_BYE, U_Thats_all, U_weather}

\* the instruction the provider is at
CallInstruction == resp.doc[call.pos]

CallRuns == call.at = "doc" /\ call.pos \in 1..Len(resp.doc)

\* the provider starts on the document of response r, if it got one
Executing(r, c) ==
    IF r.status = 200 /\ r.wellformed
    THEN [c EXCEPT !.at = "doc", !.pos = 1]
    ELSE [c EXCEPT !.at = "failed"]

\* a call arrives at Twilio or at Jambonz
CallArrives ==
    /\ call.at = "ringing"
    /\ \/ VoiceRequest({[CallSid |-> "CA1", From |-> "+15550100"]}, AudioIds, OneWav)
       \/ JambonzRequest({JDict(<<"call_sid", "from">>,
                                 [call_sid |-> JStr(<<"J","B","1">>),
                                  from |-> JStr(<<"+","1","5","5","5","0","1","0","0">>)])},
                          AudioIds, OneWav)
    /\ call' = Executing(resp', call)

\* the play or say the provider is at ends
CallPlays ==
    /\ CallRuns
    /\ IsPlay(CallInstruction) \/ IsSay(CallInstruction)
    /\ call' = [call EXCEPT !.pos = call.pos + 1]
    /\ UNCHANGED serverVars
    /\ UNCHANGED ttsVars

\* the caller speaks during the gather the provider is at
CallSpeaks ==
    /\ CallRuns
    /\ IsGather(CallInstruction)
    /\ \E u \in CallUtterances :
          /\ IF GatherAction(CallInstruction) = <<BASE_URL, "/gather">>
             THEN GatherRequest({[SpeechResult |-> u, CallSid |-> "CA1"]},
                                LlmAnswers(flowId), AudioIds, OneWav)
             ELSE JambonzGatherRequest({JbTranscript(u)}, LlmAnswers(flowId),
                                       AudioIds, OneWav)
          /\ call' = [Executing(resp', call) EXCEPT
                         !.said_closing = call.said_closing \/ IsClosing(u)]

\* the gather the provider is at times out with no speech
CallTimesOut ==
    /\ CallRuns
    /\ IsGather(CallInstruction)
    /\ call' = [call EXCEPT !.pos = call.pos + 1, !.timed_out = TRUE]
    /\ UNCHANGED serverVars
    /\ UNCHANGED ttsVars

\* the provider executes a hangup
CallHangsUp ==
    /\ CallRuns
    /\ IsHangup(CallInstruction)
    /\ call' = [call EXCEPT !.at = "hung_up"]
    /\ UNCHANGED serverVars
    /\ UNCHANGED ttsVars

\* the webhook of the call, or the one before it whose request has not
\* returned yet, is inside write_bytes while the provider goes on
CallFileOpens == WriteBytesOpens(AudioIds, OneWav) /\ UNCHANGED call
CallFileWritten == WriteBytesWrites /\ UNCHANGED call

NextCall ==
    \/ CallFileOpens
    \/ CallFileWritten
    \/ CallArrives
    \/ CallPlays
    \/ CallSpeaks
    \/ CallTimesOut
    \/ CallHangsUp

\* the provider always goes on with the call: a play or say ends, a hangup
\* is executed, and a gather ends, with the caller's speech or else with its
\* timeout
SpecCall ==
    /\ Init
    /\ [][NextCall]_vars
    /\ WF_vars(CallPlays)
    /\ WF_vars(CallTimesOut)
    /\ WF_vars(CallHangsUp)

(***************************************************************************)
(* C21: every document of a call ends with a hangup that comes after its   *)
(* gathers, the provider never runs off the end of a document or is left   *)
(* without one, and once the caller has said a closing phrase or a gather  *)
(* has timed out with no speech, the call eventually is hung up.           *)
(***************************************************************************)
CallDocumentEndsWithHangup ==
    call.at \in {"doc", "hung_up"}
    => /\ Len(resp.doc) > 0
       /\ IsHangup(resp.doc[Len(resp.doc)])
       /\ \A i \in 1..Len(resp.doc) : IsGather(resp.doc[i]) => i < Len(resp.doc)

CallNeverStuck ==
    /\ call.at \in {"ringing", "doc", "hung_up"}
    /\ call.at = "doc" => call.pos \in 1..Len(resp.doc)

HungUp == call.at = "hung_up"

C21_CallTerminates ==
    /\ []CallDocumentEndsWithHangup
    /\ []CallNeverStuck
    /\ (call.said_closing \/ call.timed_out) ~> HungUp

(***************************************************************************)
(* The TTS server (tts_server.py).  Its threads handle POST /tts and       *)
(* POST /chat at the same time; each calls get_tts(), whose steps (the     *)
(* test of the global tts_model, the construction of TTS(...), the         *)
(* assignment to the global, the return of the global) interleave freely   *)
(* with the steps of the other threads, and then synthesizes with the      *)
(* handle it got.                                                          *)
(***************************************************************************)
\* the handle of the n-th TTS object constructed
Handle(n) == <<"TTS", n>>

\* worker w goes to step pc with locals as given by record `locals`
WorkerGoto(w, locals) ==
    workers' = [workers EXCEPT ![w] =
                   [f \in DOMAIN IdleWorker |->
                       IF f \in DOMAIN locals THEN locals[f] ELSE workers[w][f]]]

\* worker w handles no request, or has answered the one it handled
WorkerFree(w) == workers[w].pc \in {"idle", "done", "failed"}

\* POST /tts or POST /chat reaches its call of get_tts()
TtsRequestArrives(w) ==
    /\ WorkerFree(w)
    /\ \E route \in {"/tts", "/chat"} :
          workers' = [workers EXCEPT ![w] =
                         [IdleWorker EXCEPT !.pc = "test", !.route = route]]
    /\ UNCHANGED <<tts_model, constructed>>
    /\ UNCHANGED <<serverVars, call>>

\* get_tts: if tts_model is None
GetTtsTests(w) ==
    /\ workers[w].pc = "test"
    /\ IF tts_model = None
       THEN WorkerGoto(w, [pc |-> "construct"])
       ELSE WorkerGoto(w, [pc |-> "return"])
    /\ UNCHANGED <<tts_model, constructed>>
    /\ UNCHANGED <<serverVars, call>>

\* get_tts: TTS(model_path=..., config_path=..., gpu=False) loads the model,
\* or raises
GetTtsConstructs(w) ==
    /\ workers[w].pc = "construct"
    /\ \/ /\ constructed' = constructed + 1
          /\ WorkerGoto(w, [pc |-> "assign", built |-> Handle(constructed + 1)])
       \/ /\ WorkerGoto(w, [pc |-> "failed"])
          /\ UNCHANGED constructed
    /\ UNCHANGED tts_model
    /\ UNCHANGED <<serverVars, call>>

\* get_tts: tts_model = <the object constructed>
GetTtsAssigns(w) ==
    /\ workers[w].pc = "assign"
    /\ tts_model' = workers[w].built
    /\ WorkerGoto(w, [pc |-> "return"])
    /\ UNCHANGED constructed
    /\ UNCHANGED <<serverVars, call>>

\* get_tts: return tts_model
GetTtsReturns(w) ==
    /\ workers[w].pc = "return"
    /\ WorkerGoto(w, [pc |-> "synthesize", tts |-> tts_model])
    /\ UNCHANGED <<tts_model, constructed>>
    /\ UNCHANGED <<serverVars, call>>

\* tts.tts_to_file(...) and send_file: the request is answered
TtsSynthesizes(w) ==
    /\ workers[w].pc = "synthesize"
    /\ WorkerGoto(w, [pc |-> "done"])
    /\ UNCHANGED <<tts_model, constructed>>
    /\ UNCHANGED <<serverVars, call>>

WorkerStep(w) ==
    \/ TtsRequestArrives(w)
    \/ GetTtsTests(w)
    \/ GetTtsConstructs(w)
    \/ GetTtsAssigns(w)
    \/ GetTtsReturns(w)
    \/ TtsSynthesizes(w)

NextTts == \E w \in Workers : WorkerStep(w)

SpecTts == Init /\ [][NextTts]_vars

(***************************************************************************)
(* C22: however the requests to /tts and /chat interleave, the TTS server  *)
(* constructs its model at most once, and all requests synthesize with     *)
(* that one handle.                                                        *)
(***************************************************************************)
\* the workers that got a handle from get_tts
Holders == {w \in Workers : workers[w].pc \in {"synthesize", "done"}}

C22_ModelLoadedOnce ==
    /\ constructed <= 1
    /\ \A w, v \in Holders : workers[w].tts = workers[v].tts

====

